---- MODULE Spec2Model ----
(***************************************************************************)
(* Notebook kernel server of abhi-arya1/parallel                           *)
(* (apps/sandboxes/container/src, mirrored by apps/web/sandboxes/server.py)*)
(*                                                                         *)
(* One workspace.  The Workspace State Store holds the workspace's kernel  *)
(* sandbox id; the Sandbox Provider holds the set of live sandboxes.       *)
(* Requests (kernel start / stop / restart / status, batch execute,        *)
(* streaming execute) run one at a time; the provider may expire a sandbox *)
(* at any moment.  Every call the code wraps in try/except is a point      *)
(* where the external service may fail; the failure is an input of the     *)
(* operation.                                                              *)
(*                                                                         *)
(* Text is a sequence of one-character strings; a fixed message of the     *)
(* code is abbreviated to a single token.                                  *)
(***************************************************************************)
EXTENDS Integers, Sequences, FiniteSets, TLC

\* ------------------------------------------------------------------ bounds
MaxCtx == 3        \* sandboxes the provider creates in one behaviour
NumCells == 3      \* cells of the workspace
MaxLines == 2      \* stdout lines a spawned streaming process writes
MaxPieces == 2     \* writes to stdout of a process whose output is read by character
MaxStmts == 2      \* top-level statements of a fragment run by a generated program
MaxOutLines == 3   \* stdout lines of a batch process whose output is read by length

\* --------------------------------------------------------------- constants
None == 0          \* Python None for an Optional[str] sandbox id

GPU_TYPES ==
  {"T4", "L4", "A10", "A100", "A100-40GB", "A100-80GB", "L40S", "H100", "H200", "B200"}

\* values the store may hold as the workspace's accelerator preference
StoredGpuValues == {"T4", "A100", "tpu"}

\* ------------------------------------------------------------------- state
VARIABLES
  store,      \* Workspace State Store: the workspace's kernel sandbox id, or None
  live,       \* Sandbox Provider: object ids of the live sandboxes
  nextId,     \* Sandbox Provider: object id of the next sandbox it creates
  call,       \* the request in flight, or Idle
  ops,        \* what the sandbox-manager and executor calls of the last step did
  delivered,  \* lines forwarded to the caller of the current / last stream
  writes,     \* cell-output mutations the current / last request sent to the store
  resp,       \* what the last finished request returned to its caller
  pkl         \* /tmp/kernel_state.pkl of the context the generated programs run on

vars == <<store, live, nextId, call, ops, delivered, writes, resp, pkl>>

\* The external state an operation reads and writes.
Env == [store |-> store, live |-> live, nextId |-> nextId]

\* ------------------------------------------------- services/convex.py (store)

\* get_workspace_gpu: the stored preference, normalised to a supported type.
get_workspace_gpu(raw) == IF raw \in GPU_TYPES THEN raw ELSE "T4"

\* get_workspace_kernel_id: the stored id; None when the query raises.
get_workspace_kernel_id(e, rfail) == IF rfail THEN None ELSE e.store

\* set_workspace_kernel_id: stores the id (None clears it); a failing
\* mutation is logged and swallowed, leaving the store as it was.
set_workspace_kernel_id_NoWrite(e, sandbox_id, wfail) == e

set_workspace_kernel_id(e, sandbox_id, wfail) ==
  IF wfail THEN e ELSE [e EXCEPT !.store = sandbox_id]

\* ------------------------------------------- services/modal_sandbox.py

get_gpu_config(gpu) == IF gpu \in GPU_TYPES THEN gpu ELSE "T4"

\* modal.Sandbox.from_id: resolves only a live sandbox, and may fail.
from_id_ok(e, sandbox_id, lfail) == sandbox_id \in e.live /\ ~lfail

\* The provider refuses to create once MaxCtx sandboxes exist.
CreateFails(e, cfail) == cfail \/ e.nextId > MaxCtx

\* What one context-manager operation did.
Snap(op, gpu, f, e, post, ret, made, killed, resolved, raised) ==
  [op |-> op, gpu |-> gpu, faults |-> f, was |-> e.live, pre |-> e.store, post |-> post,
   ret |-> ret, made |-> made, killed |-> killed, resolved |-> resolved, raised |-> raised]

\* create_sandbox: Sandbox.create, then the id is stored and returned.
\* f: the faults of this run, a subset of {"c", "w"}.
create_sandbox_NoStore(e, gpu, f) ==
  IF CreateFails(e, "c" \in f)
  THEN [e |-> e, ret |-> None, raised |-> TRUE,
        snaps |-> <<Snap("create", gpu, f, e, e.store, None, {}, {}, FALSE, TRUE)>>]
  ELSE LET id == e.nextId
           e1 == [e EXCEPT !.live = @ \cup {id}, !.nextId = @ + 1]
       IN [e |-> e1, ret |-> id, raised |-> FALSE,
           snaps |-> <<Snap("create", get_gpu_config(gpu), f, e, e1.store, id,
                            {id}, {}, FALSE, FALSE)>>]

create_sandbox(e, gpu, f) ==
  IF CreateFails(e, "c" \in f)
  THEN [e |-> e, ret |-> None, raised |-> TRUE,
        snaps |-> <<Snap("create", gpu, f, e, e.store, None, {}, {}, FALSE, TRUE)>>]
  ELSE LET id == e.nextId
           e1 == [e EXCEPT !.live = @ \cup {id}, !.nextId = @ + 1]
           e2 == set_workspace_kernel_id(e1, id, "w" \in f)
       IN [e |-> e2, ret |-> id, raised |-> FALSE,
           snaps |-> <<Snap("create", get_gpu_config(gpu), f, e, e2.store, id,
                            {id}, {}, FALSE, FALSE)>>]

\* get_sandbox_id: the stored id when it still resolves; otherwise None, the
\* stale id having been cleared.  f is a subset of {"r", "l", "w"}.
get_sandbox_id_NoVerify(e, f) ==
  [e |-> e, ret |-> get_workspace_kernel_id(e, "r" \in f),
   resolved |-> get_workspace_kernel_id(e, "r" \in f) # None]

get_sandbox_id(e, f) ==
  LET sandbox_id == get_workspace_kernel_id(e, "r" \in f) IN
  IF sandbox_id = None
  THEN [e |-> e, ret |-> None, resolved |-> FALSE]
  ELSE IF from_id_ok(e, sandbox_id, "l" \in f)
       THEN [e |-> e, ret |-> sandbox_id, resolved |-> TRUE]
       ELSE [e |-> set_workspace_kernel_id(e, None, "w" \in f),
             ret |-> None, resolved |-> FALSE]

\* ensure_sandbox: the existing sandbox, or a new one.
\* f1 holds the faults of get_sandbox_id, f2 those of create_sandbox.
\* (mutant) a sandbox is created whatever get_sandbox_id returned
ensure_sandbox_AlwaysCreate(e, gpu, f1, f2) ==
  LET g == get_sandbox_id(e, f1)
      c == create_sandbox(g.e, gpu, f2)
  IN [e |-> c.e, ret |-> c.ret, raised |-> c.raised,
      snaps |-> <<Snap("ensure", IF c.raised THEN gpu ELSE c.snaps[1].gpu,
                       [get |-> f1, create |-> f2], e, c.e.store, c.ret,
                       c.snaps[1].made, {}, g.resolved, c.raised)>>]

ensure_sandbox(e, gpu, f1, f2) ==
  LET g == get_sandbox_id(e, f1)
      f == [get |-> f1, create |-> f2]
  IN
  IF g.ret # None
  THEN [e |-> g.e, ret |-> g.ret, raised |-> FALSE,
        snaps |-> <<Snap("ensure", gpu, f, e, g.e.store, g.ret, {}, {},
                         g.resolved, FALSE)>>]
  ELSE LET c == create_sandbox(g.e, gpu, f2) IN
       [e |-> c.e, ret |-> c.ret, raised |-> c.raised,
        snaps |-> <<Snap("ensure", IF c.raised THEN gpu ELSE c.snaps[1].gpu, f,
                         e, c.e.store, c.ret,
                         c.snaps[1].made, {}, g.resolved, c.raised)>>]

\* terminate_kernel: False when nothing is stored; otherwise the sandbox is
\* looked up and terminated and the stored id cleared, also when either
\* provider call raised.  f is a subset of {"r", "l", "t", "w"}; a terminate
\* call that raises leaves the sandbox running.
terminate_kernel_KeepOnFailure(e, f) ==
  LET sandbox_id == get_workspace_kernel_id(e, "r" \in f) IN
  IF sandbox_id = None
  THEN [e |-> e, ret |-> FALSE, raised |-> FALSE,
        snaps |-> <<Snap("terminate", "", f, e, e.store, FALSE, {}, {}, FALSE, FALSE)>>]
  ELSE LET ok == from_id_ok(e, sandbox_id, "l" \in f) /\ "t" \notin f
           e1 == IF ok THEN [e EXCEPT !.live = @ \ {sandbox_id}] ELSE e
           e2 == IF ok THEN set_workspace_kernel_id(e1, None, "w" \in f) ELSE e1
       IN [e |-> e2, ret |-> ok, raised |-> FALSE,
           snaps |-> <<Snap("terminate", "", f, e, e2.store, ok, {},
                            IF ok THEN {sandbox_id} ELSE {}, ok, FALSE)>>]

terminate_kernel(e, f) ==
  LET sandbox_id == get_workspace_kernel_id(e, "r" \in f) IN
  IF sandbox_id = None
  THEN [e |-> e, ret |-> FALSE, raised |-> FALSE,
        snaps |-> <<Snap("terminate", "", f, e, e.store, FALSE, {}, {}, FALSE, FALSE)>>]
  ELSE LET ok == from_id_ok(e, sandbox_id, "l" \in f) /\ "t" \notin f
           e1 == IF ok THEN [e EXCEPT !.live = @ \ {sandbox_id}] ELSE e
           e2 == set_workspace_kernel_id(e1, None, "w" \in f)
       IN [e |-> e2, ret |-> ok, raised |-> FALSE,
           snaps |-> <<Snap("terminate", "", f, e, e2.store, ok, {},
                            IF ok THEN {sandbox_id} ELSE {}, ok, FALSE)>>]

\* The faults one run of an operation can meet (a call that is not reached
\* cannot fail; from_id and terminate failing are one case to terminate_kernel).
GetFaults == {{}, {"r"}, {"l"}, {"w"}, {"l", "w"}}
CreateFaults == {{}, {"c"}, {"w"}}
TerminateFaults == {{}, {"r"}, {"l"}, {"t"}, {"w"}, {"l", "w"}, {"t", "w"}}

\* ------------------------------------------------------------------ text
NL == "\n"
BS == "\\"

RECURSIVE Join(_)
\* "".join(lines)
Join(lines) == IF lines = <<>> THEN <<>> ELSE Head(lines) \o Join(Tail(lines))

\* Python None where a text is expected, and its truth value.
NoneText == <<"<None>">>
Truthy(text) == text # NoneText /\ text # <<>>

NoResult == [type |-> "none", content |-> <<>>]

\* ------------------------------------------------------------ the workspace
\* Cell i of the workspace: Convex id i, Yjs id Yjs(i), order index i.
Yjs(i) == NumCells + i
CellType(i) == IF i % 4 = 3 THEN "markdown" ELSE "code"
CellLanguage(i) == IF i % 4 = 1 THEN "none" ELSE IF i % 4 = 0 THEN "r" ELSE "python"
Cell(i) == [id |-> i, yjs_cell_id |-> Yjs(i), type |-> CellType(i),
            language |-> CellLanguage(i), order_index |-> i]

\* What sync:getCells may return: nothing, or the cells in the store's order.
CellsData == {<<>>, [i \in 1..NumCells |-> Cell(NumCells + 1 - i)]}

RECURSIVE InsertByOrder(_, _)
InsertByOrder(c, sorted) ==
  IF sorted = <<>> THEN <<c>>
  ELSE IF c.order_index < Head(sorted).order_index THEN <<c>> \o sorted
  ELSE <<Head(sorted)>> \o InsertByOrder(c, Tail(sorted))

RECURSIVE SortCells(_)
SortCells(cs) == IF cs = <<>> THEN <<>> ELSE InsertByOrder(cs[Len(cs)], SortCells(SubSeq(cs, 1, Len(cs) - 1)))

\* get_workspace_cells: the cells, ordered by order index.
\* (mutant) the cells as the query returned them
get_workspace_cells_Unsorted(cells_data) == cells_data

get_workspace_cells(cells_data) == SortCells(cells_data)

\* The cell ids a request may name: None, a Convex id, a Yjs id, an unknown id.
UnknownCell == 2 * NumCells + 1
RequestCellIds == {None} \cup (1..(2 * NumCells)) \cup {UnknownCell}

\* ------------------------------------------- services/execution.py (batch)
NoOutputMsg == <<"No output from kernel">>
ParseErrorMsg == <<"Kernel output parse error: ">>
RawOutputMsg == <<"Raw output: ">>
RawPrefixLen == 500

\* A line of a batch process's standard output: its text, what json.loads
\* makes of it (an object, another JSON value, or a JSONDecodeError), and
\* the object it denotes.
Record(cell, out, err, error, images, result) ==
  [cell_id |-> cell.id, yjs_cell_id |-> cell.yjs_cell_id, stdout |-> out,
   stderr |-> err, error |-> error, images |-> images, result |-> result]

NoRecord == Record([id |-> None, yjs_cell_id |-> None], <<>>, <<>>, NoneText, <<>>, NoResult)

BatchLine(json, rec, text) == [json |-> json, rec |-> rec, text |-> text]

\* (mutant) a slice one character short
Prefix_Short(text, n) == SubSeq(text, 1, IF Len(text) < n THEN Len(text) ELSE n - 1)

\* text[:n]
Prefix(text, n) == SubSeq(text, 1, IF Len(text) < n THEN Len(text) ELSE n)

\* The record synthesized when the process wrote nothing to standard output.
NoOutputRecord_DropStderr(cell, stderr_lines) ==
  Record(cell, <<>>, <<>>, NoOutputMsg, <<>>, NoResult)

NoOutputRecord(cell, stderr_lines) ==
  Record(cell, <<>>, <<>>,
         IF stderr_lines # <<>> THEN Join(stderr_lines) ELSE NoOutputMsg,
         <<>>, NoResult)

\* (mutant) the first line taken for the record, the stderr joined to it
execute_on_kernel_FirstLine(cell, output_lines, stderr_lines) ==
  IF output_lines = <<>>
  THEN [raised |-> "", dict |-> TRUE, result |-> NoOutputRecord(cell, stderr_lines)]
  ELSE [raised |-> "", dict |-> TRUE,
        result |-> [output_lines[1].rec EXCEPT !.stderr = @ \o Join(stderr_lines)]]

\* (mutant) a record that carries an error raised as an exception
execute_on_kernel_RaiseOnError(cell, output_lines, stderr_lines) ==
  IF output_lines = <<>>
  THEN [raised |-> "", dict |-> TRUE, result |-> NoOutputRecord(cell, stderr_lines)]
  ELSE LET last == output_lines[Len(output_lines)] IN
       IF last.json = "object" /\ ~Truthy(last.rec.error)
       THEN [raised |-> "", dict |-> TRUE, result |-> last.rec]
       ELSE [raised |-> "Exception", dict |-> FALSE, result |-> NoRecord]

\* execute_on_kernel, from the exit of the spawned process on: the output
\* record, a non-object JSON value returned as it is (dict FALSE), or the
\* AttributeError of result.get on such a value.
execute_on_kernel(cell, output_lines, stderr_lines) ==
  IF output_lines = <<>>
  THEN [raised |-> "", dict |-> TRUE, result |-> NoOutputRecord(cell, stderr_lines)]
  ELSE LET last == output_lines[Len(output_lines)]
           all_output == Join([i \in 1..Len(output_lines) |-> output_lines[i].text])
           all_stderr == Join(stderr_lines)
       IN CASE last.json = "object" ->
                 [raised |-> "", dict |-> TRUE,
                  result |-> IF stderr_lines = <<>> THEN last.rec
                             ELSE IF Truthy(last.rec.stderr)
                                  THEN [last.rec EXCEPT !.stderr = @ \o <<NL>> \o all_stderr]
                                  ELSE [last.rec EXCEPT !.stderr = all_stderr]]
            [] last.json = "value" ->
                 IF stderr_lines = <<>>
                 THEN [raised |-> "", dict |-> FALSE, result |-> NoRecord]
                 ELSE [raised |-> "AttributeError", dict |-> FALSE, result |-> NoRecord]
            [] OTHER ->
                 [raised |-> "", dict |-> TRUE,
                  result |-> Record(cell, all_output, all_stderr,
                                    ParseErrorMsg \o <<"JSONDecodeError", NL>> \o RawOutputMsg
                                      \o Prefix(all_output, RawPrefixLen),
                                    <<>>, NoResult)]

\* --------------------------------------- services/execution.py (streaming)
\* NDJSON.  A line is a JSON object when it reads { tag payload }, the tag
\* naming its "type" and the payload being its escaped data; the tag u is
\* that of an object that has no "type" key.  A line of digits is a JSON
\* value that is no object; any other line is no JSON.
Space == " "
Tab == "\t"
\* the characters str.strip and str.split take for whitespace
Whitespace == {Space, Tab, NL}
Digits == {"0", "1", "2", "3", "4", "5", "6", "7", "8", "9"}
EventTags == {"s", "w", "i", "r", "R", "e", "d", "u"}

TagType(tag) ==
  CASE tag = "s" -> "stdout" [] tag = "w" -> "stderr" [] tag = "i" -> "image"
    [] tag \in {"r", "R"} -> "result" [] tag = "e" -> "error" [] tag = "d" -> "done"
    [] OTHER -> "unknown"

RECURSIVE Escape(_)
\* the text inside a JSON string
Escape(text) ==
  IF text = <<>> THEN <<>>
  ELSE (IF Head(text) = NL THEN <<BS, "n">>
        ELSE IF Head(text) = BS THEN <<BS, BS>> ELSE <<Head(text)>>) \o Escape(Tail(text))

RECURSIVE WellEscaped(_)
WellEscaped(p) ==
  IF p = <<>> THEN TRUE
  ELSE IF Head(p) = BS
       THEN Len(p) >= 2 /\ p[2] \in {"n", BS} /\ WellEscaped(Tail(Tail(p)))
       ELSE WellEscaped(Tail(p))

RECURSIVE Unescape(_)
Unescape(p) ==
  IF p = <<>> THEN <<>>
  ELSE IF Head(p) = BS /\ Len(p) >= 2
       THEN <<IF p[2] = "n" THEN NL ELSE p[2]>> \o Unescape(Tail(Tail(p)))
       ELSE <<Head(p)>> \o Unescape(Tail(p))

\* json.dumps of an event with one text field
Dumps(tag, text) == <<"{", tag>> \o Escape(text) \o <<"}">>

\* an object that has no "type" key, as a process may write past the wrapper
UntypedObject == Dumps("u", <<>>)

\* What json.loads makes of a line.
JsonKind(line) ==
  IF /\ Len(line) >= 3
     /\ line[1] = "{"
     /\ line[Len(line)] = "}"
     /\ line[2] \in EventTags
     /\ WellEscaped(SubSeq(line, 3, Len(line) - 1))
  THEN "object"
  ELSE IF line # <<>> /\ \A i \in 1..Len(line) : line[i] \in Digits THEN "value"
  ELSE "invalid"

Loads(line) ==
  [type |-> TagType(line[2]),
   format |-> IF line[2] = "R" THEN "dataframe" ELSE IF line[2] = "r" THEN "text" ELSE "",
   data |-> Unescape(SubSeq(line, 3, Len(line) - 1))]

RECURSIVE LStrip(_)
LStrip(t) == IF t # <<>> /\ Head(t) \in Whitespace THEN LStrip(Tail(t)) ELSE t

RECURSIVE RStrip(_)
RStrip(t) == IF t # <<>> /\ t[Len(t)] \in Whitespace THEN RStrip(SubSeq(t, 1, Len(t) - 1)) ELSE t

\* str.strip
Strip(t) == RStrip(LStrip(t))

\* index of the first "\n" of a text, 0 when it has none
FirstNL(t) ==
  IF \E i \in 1..Len(t) : t[i] = NL
  THEN CHOOSE i \in 1..Len(t) : t[i] = NL /\ \A j \in 1..(i - 1) : t[j] # NL
  ELSE 0

\* The local variables of stream_execute_on_kernel; events are the lines it
\* has yielded and raised the exception that ended it.
NoEvent == [type |-> "none", format |-> "", data |-> <<>>]

StreamState0 ==
  [line_buffer |-> <<>>, stdout_accumulator |-> <<>>, images_collected |-> <<>>,
   result_collected |-> NoEvent, error_collected |-> NoneText,
   events |-> <<>>, raised |-> ""]

\* One complete line in the loop over the stdout chunks.
ProcessLine(st, raw) ==
  LET line == Strip(raw) IN
  IF line = <<>> THEN st
  ELSE CASE JsonKind(line) = "object" ->
              LET event == Loads(line)
                  st1 == CASE event.type = "stdout" ->
                                [st EXCEPT !.stdout_accumulator = @ \o event.data]
                           [] event.type = "image" ->
                                [st EXCEPT !.images_collected = Append(@, event.data)]
                           [] event.type = "result" ->
                                [st EXCEPT !.result_collected = event]
                           [] event.type = "error" ->
                                [st EXCEPT !.error_collected = event.data]
                           [] OTHER -> st
              IN [st1 EXCEPT !.events = Append(@, line \o <<NL>>)]
         [] JsonKind(line) = "value" -> [st EXCEPT !.raised = "AttributeError"]
         [] OTHER ->
              [st EXCEPT !.stdout_accumulator = @ \o line \o <<NL>>,
                         !.events = Append(@, Dumps("s", line \o <<NL>>) \o <<NL>>)]

RECURSIVE ProcessLines(_)
\* while "\n" in line_buffer
ProcessLines(st) ==
  LET n == FirstNL(st.line_buffer) IN
  IF n = 0 \/ st.raised # "" THEN st
  ELSE ProcessLines(ProcessLine(
         [st EXCEPT !.line_buffer = SubSeq(@, n + 1, Len(@))],
         SubSeq(st.line_buffer, 1, n - 1)))

RECURSIVE ReadChunks_PerChunk(_, _, _)
ReadChunks_PerChunk(st, chunks, fail) ==
  IF st.raised # "" \/ chunks = <<>> THEN st
  ELSE ReadChunks_PerChunk(ProcessLines([st EXCEPT !.line_buffer = Head(chunks)]),
                           Tail(chunks), fail)

RECURSIVE ReadChunks(_, _, _)
\* async for chunk in process.stdout, reading chunks k+1 .. of the process;
\* fail tells after how many chunks read the iteration raises, and what.
ReadChunks(st, chunks, fail) ==
  IF st.raised # "" THEN st
  ELSE IF fail.exc # "" /\ fail.at = 0 THEN [st EXCEPT !.raised = fail.exc]
  ELSE IF chunks = <<>> THEN st
  ELSE ReadChunks(ProcessLines([st EXCEPT !.line_buffer = @ \o Head(chunks)]),
                  Tail(chunks), [fail EXCEPT !.at = @ - 1])

\* The rest of the buffer once stdout has ended.
ProcessRemainder(st) ==
  IF st.raised # "" \/ Strip(st.line_buffer) = <<>> THEN st
  ELSE LET line == Strip(st.line_buffer) IN
       IF JsonKind(line) \in {"object", "value"}
       THEN [st EXCEPT !.events = Append(@, line \o <<NL>>)]
       ELSE [st EXCEPT !.events = Append(@, Dumps("s", line \o <<NL>>) \o <<NL>>)]

\* Draining stderr and waiting for the exit, then the stderr event.
DrainStderr(st, nchunks, stderr_lines, fail) ==
  IF st.raised # "" THEN st
  ELSE IF fail.exc # "" /\ fail.at = nchunks + 1 THEN [st EXCEPT !.raised = fail.exc]
  ELSE IF stderr_lines # <<>>
  THEN [st EXCEPT !.events = Append(@, Dumps("w", Join(stderr_lines)) \o <<NL>>)]
  ELSE st

\* clear_cell_outputs and save_cell_output, as the mutation sent to the store.
Clear(cell) == [op |-> "clear", cell_id |-> cell.id, type |-> "", content |-> <<>>]

Save(cell, type, content) == [op |-> "save", cell_id |-> cell.id, type |-> type, content |-> content]

\* (mutant) the checks chained: a piece is saved only after the one before it
StreamSaves_Chained(cell, st, stderr_lines) ==
  IF st.raised # "" \/ st.stdout_accumulator = <<>> THEN <<>>
  ELSE <<Save(cell, "stdout", st.stdout_accumulator)>>
    \o [i \in 1..Len(st.images_collected) |-> Save(cell, "image", st.images_collected[i])]
    \o (IF st.result_collected.type = "none" THEN <<>>
        ELSE <<Save(cell, IF st.result_collected.format = "dataframe"
                          THEN "dataframe" ELSE "result", st.result_collected.data)>>
          \o (IF ~Truthy(st.error_collected) THEN <<>>
              ELSE <<Save(cell, "error", st.error_collected)>>
                \o (IF stderr_lines # <<>>
                    THEN <<Save(cell, "stderr", Join(stderr_lines))>> ELSE <<>>)))

StreamSaves(cell, st, stderr_lines) ==
  IF st.raised # "" THEN <<>>
  ELSE (IF st.stdout_accumulator # <<>>
        THEN <<Save(cell, "stdout", st.stdout_accumulator)>> ELSE <<>>)
    \o [i \in 1..Len(st.images_collected) |-> Save(cell, "image", st.images_collected[i])]
    \o (IF st.result_collected.type # "none"
        THEN <<Save(cell, IF st.result_collected.format = "dataframe"
                          THEN "dataframe" ELSE "result", st.result_collected.data)>>
        ELSE <<>>)
    \o (IF Truthy(st.error_collected)
        THEN <<Save(cell, "error", st.error_collected)>> ELSE <<>>)
    \o (IF stderr_lines # <<>> THEN <<Save(cell, "stderr", Join(stderr_lines))>> ELSE <<>>)

\* (mutant) the lines yielded last first
stream_execute_on_kernel_Reversed(cell, chunks, stderr_lines, fail) ==
  LET st == DrainStderr(ProcessRemainder(ReadChunks(StreamState0, chunks, fail)),
                        Len(chunks), stderr_lines, fail)
  IN [events |-> [i \in 1..Len(st.events) |-> st.events[Len(st.events) + 1 - i]],
      raised |-> st.raised,
      saves |-> StreamSaves(cell, st, stderr_lines)]

\* (mutant) what was accumulated is saved also when the stream raises
stream_execute_on_kernel_SavesPartial(cell, chunks, stderr_lines, fail) ==
  LET st == DrainStderr(ProcessRemainder(ReadChunks(StreamState0, chunks, fail)),
                        Len(chunks), stderr_lines, fail)
  IN [events |-> st.events, raised |-> st.raised,
      saves |-> StreamSaves(cell, [st EXCEPT !.raised = ""], stderr_lines)]

\* stream_execute_on_kernel from the spawn on, consumed to its end: the lines
\* it yields, the exception that ends it (if any) and the outputs it saves.
stream_execute_on_kernel(cell, chunks, stderr_lines, fail) ==
  LET st == DrainStderr(ProcessRemainder(ReadChunks(StreamState0, chunks, fail)),
                        Len(chunks), stderr_lines, fail)
  IN [events |-> st.events, raised |-> st.raised,
      saves |-> StreamSaves(cell, st, stderr_lines)]

\* ------------------- services/execution.py: the generated programs, values
\* The names a fragment binds and the values it binds them to.  Module is a
\* value pickle rejects (what import binds), Obj an object with the default
\* repr, Df a pandas DataFrame; Unbound marks a name the namespace lacks.
Unbound == "<unbound>"
Module == "<module>"
NoneValue == "None"
Obj == "<object>"
Df == "<DataFrame>"
Names == {"x", "_y", "plt", "m"}

\* k.startswith("_")
Private(k) == k \in {"_y"}

\* pickle.dumps(v) succeeds
Picklable(v) == v \notin {Module, Obj}

\* The persisted namespace file: absent, or the names it holds.
NoFile == [exists |-> FALSE, names |-> [k \in Names |-> Unbound]]

\* Load persisted globals, then pre-populate them with matplotlib.
LoadGlobals(file) ==
  [k \in Names |-> IF k = "plt" THEN Module
                   ELSE IF file.exists THEN file.names[k] ELSE Unbound]

\* Persist globals for next execution.
PersistGlobals(globals) ==
  [exists |-> TRUE,
   names |-> [k \in Names |-> IF ~Private(k) /\ globals[k] # Unbound /\ Picklable(globals[k])
                              THEN globals[k] ELSE Unbound]]

\* repr(value) and value.to_json(orient="records")
Repr(value) ==
  CASE value = Obj -> <<"<", "C ", "object at 0x", "7f", ">">>
    [] value = Module -> <<"<", "module 'x'", ">">>
    [] value = Df -> <<"   a", NL, "0  1">>
    [] OTHER -> <<value>>

ToJson(value) == <<"[", "{", "a", ":", "1", "}", "]">>

\* (mutant) every value displayed by its repr
format_result_Always(value) == [type |-> "result", content |-> Repr(value)]

format_result(value) ==
  IF value = NoneValue THEN NoResult
  ELSE IF value = Df THEN [type |-> "dataframe", content |-> ToJson(value)]
  ELSE LET result_str == Repr(value) IN
       IF result_str[1] = "<" /\ \E i \in DOMAIN result_str : result_str[i] = "object at 0x"
       THEN NoResult
       ELSE [type |-> "result", content |-> result_str]

\* traceback.format_exc()
Trace(exc) == <<"Traceback (most recent call last):", NL, exc, NL>>

\* emit(event_type, **data): the line written to file descriptor 1
emit(tag, data) == Dumps(tag, data) \o <<NL>>

RECURSIVE SplitLines(_, _)
\* while "\n" in self.buffer
SplitLines(buffer, events) ==
  LET n == FirstNL(buffer) IN
  IF n = 0 THEN [buffer |-> buffer, events |-> events]
  ELSE SplitLines(SubSeq(buffer, n + 1, Len(buffer)),
                  IF n > 1 THEN Append(events, emit("s", SubSeq(buffer, 1, n)))
                  ELSE events)

\* StreamingStdout.write and StreamingStdout.flush
StreamingStdout_write(buffer, text) ==
  IF text = <<>> THEN [buffer |-> buffer, events |-> <<>>]
  ELSE SplitLines(buffer \o text, <<>>)

StreamingStdout_flush(buffer) == IF buffer # <<>> THEN <<emit("s", buffer)>> ELSE <<>>

\* The top-level statements of a fragment: an assignment or import binding
\* name to value, a print of text, a bare expression (a name, or a literal
\* value when name is empty), plt.figure(), and a raise or exit.
Stmt(kind, name, value, text) == [kind |-> kind, name |-> name, value |-> value, text |-> text]
NoStmt == Stmt("none", "", "", <<>>)

Expressions ==
  {Stmt("expr", "x", "", <<>>)}
    \cup {Stmt("expr", "", v, <<>>) : v \in {NoneValue, Obj, Df}}

Statements ==
  {Stmt("assign", "x", v, <<>>) : v \in {"1", "2", Module}}
    \cup {Stmt("assign", "_y", "1", <<>>), Stmt("assign", "plt", "1", <<>>),
          Stmt("assign", "m", Module, <<>>)}
    \cup {Stmt("print", "", "", t) : t \in {<<"a", NL>>, <<"a">>, <<NL>>}}
    \cup Expressions
    \cup {Stmt("figure", "", "", <<>>)}
    \cup {Stmt("raise", "", v, <<>>) : v \in {"Exception", "SystemExit", "os._exit"}}

\* The value of a bare expression in a namespace.
Eval(globals, s) == IF s.name # "" THEN globals[s.name] ELSE s.value

\* The exception a statement raises in a namespace ("" when it raises none).
Raises(globals, s) ==
  CASE s.kind = "raise" -> s.value
    [] s.kind = "expr" /\ Eval(globals, s) = Unbound -> "NameError"
    [] s.kind = "figure" /\ globals["plt"] # Module -> "AttributeError"
    [] OTHER -> ""

\* The generated program at the start of the user code.
Program(mode, file) ==
  [kind |-> "program", mode |-> mode, pc |-> "user", globals |-> LoadGlobals(file),
   buffer |-> <<>>, stdout_buf |-> <<>>, figures |-> 0, n |-> 0,
   error |-> NoneText, expr_result |-> NoResult,
   written |-> <<>>, last |-> NoStmt, evaluated |-> FALSE, finished |-> FALSE]

\* The program after its user code ran the statement s, and the lines the
\* statement made it write to file descriptor 1.  eval tells that s is the
\* last statement of the fragment and a bare expression.  An Exception ends
\* the user code with its trace; SystemExit and os._exit end the process,
\* the former flushing sys.stdout on the way.
Step(p, s, eval) ==
  LET exc == Raises(p.globals, s)
      q == [p EXCEPT !.n = @ + 1, !.last = s]
  IN CASE exc = "os._exit" -> [p |-> [q EXCEPT !.pc = "exited"], events |-> <<>>]
       [] exc = "SystemExit" ->
            [p |-> [q EXCEPT !.pc = "exited", !.buffer = <<>>],
             events |-> StreamingStdout_flush(p.buffer)]
       [] exc \notin {"", "os._exit", "SystemExit"} ->
            [p |-> [q EXCEPT !.pc = "epilogue", !.error = Trace(exc)], events |-> <<>>]
       [] OTHER ->
            CASE s.kind = "assign" ->
                   [p |-> [q EXCEPT !.globals[s.name] = s.value], events |-> <<>>]
              [] s.kind = "print" /\ p.mode = "stream" ->
                   LET w == StreamingStdout_write(p.buffer, s.text)
                   IN [p |-> [q EXCEPT !.buffer = w.buffer, !.written = @ \o s.text],
                       events |-> w.events]
              [] s.kind = "print" /\ p.mode = "batch" ->
                   [p |-> [q EXCEPT !.stdout_buf = @ \o s.text, !.written = @ \o s.text],
                       events |-> <<>>]
              [] s.kind = "figure" -> [p |-> [q EXCEPT !.figures = @ + 1], events |-> <<>>]
              [] s.kind = "expr" /\ eval ->
                   [p |-> [q EXCEPT !.pc = "epilogue", !.evaluated = TRUE,
                                    !.expr_result = format_result(Eval(p.globals, s))],
                    events |-> <<>>]
              [] OTHER -> [p |-> q, events |-> <<>>]

Image == <<"data:image/png;base64,", "iVBOR">>

\* What the streaming program emits once the user code is over: the flush,
\* then the final events.
FinalEvents(p) ==
  StreamingStdout_flush(p.buffer)
    \o [i \in 1..p.figures |-> emit("i", Image)]
    \o (IF p.expr_result.type # "none"
        THEN <<emit(IF p.expr_result.type = "dataframe" THEN "R" ELSE "r",
                    p.expr_result.content)>>
        ELSE <<>>)
    \o (IF Truthy(p.error) THEN <<emit("e", p.error)>> ELSE <<>>)
    \o <<emit("d", <<>>)>>

\* print(json.dumps(result)) of the batch program
FinalRecord(cell, p) ==
  BatchLine("object",
            Record(cell, p.stdout_buf, <<>>, p.error, [i \in 1..p.figures |-> Image],
                   p.expr_result),
            <<"{", "}", NL>>)

\* ------------------------------------------------------- requests: state
Idle == [kind |-> "idle"]
Returned == [kind |-> "returned"]
NoResp == [kind |-> "none"]

SetEnv(e) ==
  /\ store' = e.store
  /\ live' = e.live
  /\ nextId' = e.nextId

Init ==
  /\ store = None
  /\ live = {}
  /\ nextId = 1
  /\ call = Idle
  /\ ops = <<>>
  /\ delivered = <<>>
  /\ writes = <<>>
  /\ resp = NoResp
  /\ pkl = NoFile

\* The response is with the caller; the server awaits the next request.
Respond ==
  /\ call = Returned
  /\ call' = Idle
  /\ ops' = <<>>
  /\ delivered' = <<>>
  /\ writes' = <<>>
  /\ resp' = NoResp
  /\ UNCHANGED <<store, live, nextId>>
  /\ UNCHANGED pkl

\* ------------------------------------------------------ routes/kernel.py

\* The faults of one status request: those of the lookup, and the accelerator
\* query ("g"), which runs inside the same try once the lookup succeeded.
StatusFaults == GetFaults \cup {{"g"}, {"g", "w"}}

\* What the try of kernel_status comes to: the lookup and the accelerator
\* query both succeeded.
StatusRunning(e, sandbox_id, f) == from_id_ok(e, sandbox_id, "l" \in f) /\ "g" \notin f

\* GET /kernel/{workspace_id}/status
kernel_status ==
  /\ call = Idle
  /\ \E f \in StatusFaults :
       LET sandbox_id == get_workspace_kernel_id(Env, "r" \in f)
           found == sandbox_id # None /\ from_id_ok(Env, sandbox_id, "l" \in f)
           running == sandbox_id # None /\ StatusRunning(Env, sandbox_id, f)
           e1 == IF sandbox_id # None /\ ~running
                 THEN set_workspace_kernel_id(Env, None, "w" \in f) ELSE Env
           status == IF sandbox_id = None THEN "not_found"
                     ELSE IF running THEN "running" ELSE "stopped"
       IN /\ SetEnv(e1)
          /\ resp' = [kind |-> "status", status |-> status,
                      sandbox_id |-> IF running THEN sandbox_id ELSE None]
          /\ ops' = <<Snap("status", "", f, Env, e1.store, status, {}, {}, found, FALSE)>>
  /\ call' = Returned
  /\ UNCHANGED <<delivered, writes>>
  /\ UNCHANGED pkl

\* POST /kernel/{workspace_id}/start: terminate, then create; any exception
\* becomes a response with success False.
start_kernel ==
  /\ call = Idle
  /\ \E gpu \in StoredGpuValues, f1 \in TerminateFaults, f2 \in CreateFaults :
       LET t == terminate_kernel(Env, f1)
           c == create_sandbox(t.e, gpu, f2)
       IN /\ SetEnv(c.e)
          /\ resp' = [kind |-> "start", success |-> ~c.raised, sandbox_id |-> c.ret,
                      raised |-> FALSE]
          /\ ops' = t.snaps \o c.snaps
  /\ call' = Returned
  /\ UNCHANGED <<delivered, writes>>
  /\ UNCHANGED pkl

\* POST /kernel/{workspace_id}/stop
stop_kernel ==
  /\ call = Idle
  /\ \E f \in TerminateFaults :
       LET t == terminate_kernel(Env, f)
       IN /\ SetEnv(t.e)
          /\ resp' = [kind |-> "stop", success |-> t.ret]
          /\ ops' = t.snaps
  /\ call' = Returned
  /\ UNCHANGED <<delivered, writes>>
  /\ UNCHANGED pkl

\* POST /kernel/{workspace_id}/restart: as start, but nothing is caught.
restart_kernel ==
  /\ call = Idle
  /\ \E raw \in StoredGpuValues, f1 \in TerminateFaults, f2 \in CreateFaults :
       LET gpu == get_workspace_gpu(raw)
           t == terminate_kernel(Env, f1)
           c == create_sandbox(t.e, gpu, f2)
       IN /\ SetEnv(c.e)
          /\ resp' = [kind |-> "start", success |-> ~c.raised, sandbox_id |-> c.ret,
                      raised |-> c.raised]
          /\ ops' = t.snaps \o c.snaps
  /\ call' = Returned
  /\ UNCHANGED <<delivered, writes>>
  /\ UNCHANGED pkl

\* The provider's idle / maximum-lifetime timeout ends a sandbox.  (A sandbox
\* lost while a request runs shows as the NotFoundError of its spawn.)
Expire ==
  /\ call = Idle
  /\ \E id \in live : live' = live \ {id}
  /\ ops' = <<>>
  /\ UNCHANGED <<store, nextId, call, delivered, writes, resp>>
  /\ UNCHANGED pkl

\* --------------------------------------- routes/execute.py: POST /execute

\* What a spawned batch process may write.  The wrapper's record reports the
\* fragment's stdout, or its traceback; a line written past the wrapper is
\* raw text or a bare JSON value.
WrapperRecord(cell, failed) ==
  IF failed THEN Record(cell, <<>>, <<>>, <<"Traceback">>, <<>>, NoResult)
  ELSE Record(cell, <<"a", NL>>, <<>>, NoneText, <<>>, [type |-> "result", content |-> <<"2">>])

RecordLine(cell, failed) == BatchLine("object", WrapperRecord(cell, failed), <<"{", "}", NL>>)
TextLine == BatchLine("invalid", NoRecord, <<"x", NL>>)
\* the record of a fragment that wrote to sys.stderr
StderrRecordLine(cell) ==
  BatchLine("object", [WrapperRecord(cell, FALSE) EXCEPT !.stderr = <<"e", NL>>],
            <<"{", "e", "}", NL>>)
ValueLine == BatchLine("value", NoRecord, <<"5", NL>>)

StderrOutputs == {<<>>, <<<<"w", NL>>>>}

\* How one spawn of the fragment on a sandbox goes.  On a sandbox that is
\* not live, from_id raises NotFoundError.  Otherwise the process runs to its
\* exit ("run") having written out and err, or a provider call raises: any
\* exception, or NotFoundError for a sandbox lost meanwhile.
Run(out, err) == [how |-> "run", out |-> out, err |-> err]

BatchChoices(cell, gone) ==
  IF gone THEN {[how |-> "NotFoundError", out |-> <<>>, err |-> <<>>]}
  ELSE {Run(<<>>, x) : x \in StderrOutputs}
    \cup {Run(<<RecordLine(cell, FALSE)>>, x) : x \in StderrOutputs}
    \cup {Run(<<ValueLine>>, x) : x \in StderrOutputs}
    \cup {Run(<<RecordLine(cell, TRUE)>>, <<>>), Run(<<TextLine, RecordLine(cell, FALSE)>>, <<>>),
          Run(<<TextLine>>, <<>>)}
    \cup {[how |-> h, out |-> <<>>, err |-> <<>>] : h \in {"Exception", "NotFoundError"}}

\* One await of execute_on_kernel.
BatchAttempt(e, sandbox_id, cell, ch) ==
  IF ch.how = "NotFoundError"
  THEN [e |-> [e EXCEPT !.live = @ \ {sandbox_id}], raised |-> "NotFoundError",
        dict |-> FALSE, result |-> NoRecord]
  ELSE IF ch.how = "Exception"
  THEN [e |-> e, raised |-> "Exception", dict |-> FALSE, result |-> NoRecord]
  ELSE [e |-> e] @@ execute_on_kernel(cell, ch.out, ch.err)

\* The outputs execute_cells makes of one result, in the order it appends them.
Output(cell, type, content) ==
  [cell_id |-> cell.id, yjs_cell_id |-> cell.yjs_cell_id, type |-> type, content |-> content]

CellOutputs(cell, result) ==
  (IF Truthy(result.stdout) THEN <<Output(cell, "stdout", result.stdout)>> ELSE <<>>)
  \o (IF Truthy(result.stderr) THEN <<Output(cell, "stderr", result.stderr)>> ELSE <<>>)
  \o (IF Truthy(result.error) THEN <<Output(cell, "error", result.error)>> ELSE <<>>)
  \o [i \in 1..Len(result.images) |-> Output(cell, "image", result.images[i])]
  \o (IF result.result.type # "none"
      THEN <<Output(cell, result.result.type, result.result.content)>> ELSE <<>>)

ExecuteResponse(success, outputs, error) ==
  [kind |-> "execute", raised |-> "", success |-> success, outputs |-> outputs,
   error |-> error]

\* The handlers that end execute_cells: an HTTPException is raised to the
\* caller, any other exception becomes a response with success False.
execute_cells_except_Raise(exc) ==
  [kind |-> "execute", raised |-> exc, success |-> FALSE, outputs |-> <<>>,
   error |-> <<exc>>]

execute_cells_except(exc) ==
  IF exc = "HTTPException"
  THEN [kind |-> "execute", raised |-> exc, success |-> FALSE, outputs |-> <<>>,
        error |-> <<"Cell not found">>]
  ELSE ExecuteResponse(FALSE, <<>>, <<exc>>)

IsPythonCode(c) == c.type = "code" /\ c.language \in {"none", "python"}

Matches(c, cell_id) == c.id = cell_id \/ c.yjs_cell_id = cell_id

\* [c for c in cs if ...]: the cells at the indices in keep, in their order
Select(cs, keep) ==
  LET F[i \in 0..Len(cs)] ==
        IF i = 0 THEN <<>> ELSE IF i \in keep THEN F[i - 1] \o <<cs[i]>> ELSE F[i - 1]
  IN F[Len(cs)]

\* execute_cells up to its loop: accelerator, ensure_sandbox, the cells and
\* their filters.  q names the store query that raises, if any.
execute_cells_begin ==
  /\ call = Idle
  /\ \E cell_id \in RequestCellIds, raw \in StoredGpuValues, q \in {"", "gpu", "cells"},
        f1 \in GetFaults, f2 \in CreateFaults, cells_data \in CellsData :
       LET gpu == get_workspace_gpu(raw)
           s == ensure_sandbox(Env, gpu, f1, f2)
           cells == get_workspace_cells(cells_data)
           wanted == IF cell_id = None THEN cells
                     ELSE Select(cells, {i \in DOMAIN cells : Matches(cells[i], cell_id)})
           code_cells == Select(wanted, {i \in DOMAIN wanted : IsPythonCode(wanted[i])})
           Finish(e, snaps, r) ==
             /\ SetEnv(e) /\ ops' = snaps /\ call' = Returned
             /\ resp' = r @@ [log |-> <<>>, recreated |-> <<>>, wfail |-> FALSE]
       IN IF q = "gpu" THEN Finish(Env, <<>>, execute_cells_except("Exception"))
          ELSE IF s.raised THEN Finish(s.e, s.snaps, execute_cells_except("Exception"))
          ELSE IF q = "cells" THEN Finish(s.e, s.snaps, execute_cells_except("Exception"))
          ELSE IF cells = <<>>
            THEN Finish(s.e, s.snaps, ExecuteResponse(TRUE, <<>>, <<"No cells found">>))
          ELSE IF wanted = <<>>
            THEN Finish(s.e, s.snaps, execute_cells_except("HTTPException"))
          ELSE IF code_cells = <<>>
            THEN Finish(s.e, s.snaps,
                        ExecuteResponse(TRUE, <<>>, <<"No Python code cells to execute">>))
          ELSE /\ SetEnv(s.e)
               /\ ops' = s.snaps
               /\ resp' = NoResp
               /\ call' = [kind |-> "batch", phase |-> "exec",
                           sandbox_id |-> s.ret, gpu |-> gpu, todo |-> code_cells,
                           log |-> <<>>, recreated |-> <<>>, wfail |-> FALSE,
                           outputs |-> <<>>]
  /\ UNCHANGED <<delivered, writes>>
  /\ UNCHANGED pkl

LogEntry(cell, sandbox_id, outcome) ==
  [cell |-> cell.id, sandbox_id |-> sandbox_id, outcome |-> outcome]

\* What the handler of the loop's inner try does with an exception of the
\* awaited execute_on_kernel: the first one of a cell is handled by
\* recreating the sandbox, one raised inside the handler propagates.
OnExecException_Loop(phase) == "recreate"

\* (mutant) no handler: the exception of the first await propagates too
OnExecException_Propagate(phase) == "propagate"

OnExecException(phase) == IF phase = "exec" THEN "recreate" ELSE "propagate"

\* One await of execute_on_kernel in the loop (the first of a cell, or the
\* one in the handler), and on its return the rest of the iteration.
execute_cells_exec ==
  /\ call.kind = "batch"
  /\ call.phase \in {"exec", "retry"}
  /\ LET cell == Head(call.todo) IN
     \E ch \in BatchChoices(cell, call.sandbox_id \notin live) :
     \E a \in {BatchAttempt(Env, call.sandbox_id, cell, ch)} :
       LET log == call.log \o <<LogEntry(cell, call.sandbox_id,
                                         IF a.raised # "" THEN a.raised
                                         ELSE IF a.dict THEN "ok" ELSE "value")>>
           outputs == call.outputs \o CellOutputs(cell, a.result)
           cleared == IF call.phase = "exec" THEN writes \o <<Clear(cell)>> ELSE writes
           saved == LET o == CellOutputs(cell, a.result) IN
                    [i \in 1..Len(o) |-> Save(cell, o[i].type, o[i].content)]
       IN /\ SetEnv(a.e)
          /\ ops' = <<[op |-> "execute", cell |-> cell, how |-> ch.how, out |-> ch.out,
                       err |-> ch.err, ret |-> [raised |-> a.raised, dict |-> a.dict,
                                                result |-> a.result]]>>
          /\ writes' = IF a.raised = "" /\ a.dict THEN cleared \o saved ELSE cleared
          /\ IF a.raised # ""
             THEN IF OnExecException(call.phase) = "recreate"
                  THEN /\ call' = [call EXCEPT !.phase = "recreate", !.log = log]
                       /\ resp' = NoResp
                  ELSE /\ call' = Returned
                       /\ resp' = execute_cells_except(a.raised) @@ [log |-> log,
                                    recreated |-> call.recreated, wfail |-> call.wfail]
             ELSE IF ~a.dict
             THEN /\ call' = Returned
                  /\ resp' = execute_cells_except("AttributeError") @@ [log |-> log,
                               recreated |-> call.recreated, wfail |-> call.wfail]
             ELSE IF Len(call.todo) = 1
             THEN /\ call' = Returned
                  /\ resp' = ExecuteResponse(TRUE, outputs, NoneText) @@ [log |-> log,
                               recreated |-> call.recreated, wfail |-> call.wfail]
             ELSE /\ call' = [call EXCEPT !.phase = "exec", !.todo = Tail(@),
                                          !.log = log, !.outputs = outputs]
                  /\ resp' = NoResp
  /\ UNCHANGED delivered
  /\ UNCHANGED pkl

\* (mutant) the handlers do not rebind sandbox_id to the created sandbox
execute_cells_recreate_KeepId ==
  /\ call.kind = "batch"
  /\ call.phase = "recreate"
  /\ \E f1 \in TerminateFaults, f2 \in CreateFaults :
     \E c \in {create_sandbox(terminate_kernel(Env, f1).e, call.gpu, f2)} :
       LET recreated == call.recreated \o <<Head(call.todo).id>>
       IN /\ SetEnv(c.e)
          /\ ops' = <<>>
          /\ IF c.raised
             THEN /\ call' = Returned
                  /\ resp' = execute_cells_except("Exception") @@ [log |-> call.log,
                               recreated |-> recreated, wfail |-> call.wfail]
             ELSE /\ call' = [call EXCEPT !.phase = "retry", !.recreated = recreated,
                                          !.wfail = "w" \in f2]
                  /\ resp' = NoResp
  /\ UNCHANGED <<delivered, writes>>
  /\ UNCHANGED pkl

\* The exception handlers of the loop: terminate_kernel, create_sandbox.
execute_cells_recreate ==
  /\ call.kind = "batch"
  /\ call.phase = "recreate"
  /\ \E f1 \in TerminateFaults, f2 \in CreateFaults :
     \E c \in {create_sandbox(terminate_kernel(Env, f1).e, call.gpu, f2)} :
       LET recreated == call.recreated \o <<Head(call.todo).id>>
       IN /\ SetEnv(c.e)
          /\ ops' = <<>>
          /\ IF c.raised
             THEN /\ call' = Returned
                  /\ resp' = execute_cells_except("Exception") @@ [log |-> call.log,
                               recreated |-> recreated, wfail |-> call.wfail]
             ELSE /\ call' = [call EXCEPT !.phase = "retry", !.sandbox_id = c.ret,
                                          !.recreated = recreated,
                                          !.wfail = "w" \in f2]
                  /\ resp' = NoResp
  /\ UNCHANGED <<delivered, writes>>
  /\ UNCHANGED pkl

\* ------------------------- routes/execute.py: GET /stream/{workspace}/{cell}

\* What a spawned streaming process may write to standard output, a line a
\* chunk: events of the wrapper, and a bare JSON value written past it.
StdoutEvent == Dumps("s", <<"a", NL>>)
DoneEvent == Dumps("d", <<>>)
ValueLine5 == <<"5">>
StreamLines == {StdoutEvent, DoneEvent, ValueLine5}

\* What the streaming program writes when its user code raised an Exception.
UserErrorOutput == <<emit("e", Trace("Exception")), emit("d", <<>>)>>

\* The chunks of one process, up to the line that ends the reading: the
\* bare value raises, so nothing that follows it is read.
StreamOutputs ==
  {c \in UNION {[1..n -> {l \o <<NL>> : l \in StreamLines}] : n \in 0..MaxLines} :
     \A i \in 1..(Len(c) - 1) : c[i] # ValueLine5 \o <<NL>>}
    \cup {UserErrorOutput}

NoFail == [at |-> 0, exc |-> ""]

\* How one spawn of the fragment goes.  On a sandbox that is not live,
\* from_id raises NotFoundError.  Otherwise the process writes its chunks
\* and its stderr and exits, or a provider call raises: instead of the end
\* of stdout (so before the first chunk when there is none), with any
\* exception or the NotFoundError of a sandbox lost meanwhile, or while
\* stderr is drained and the exit awaited.
StreamChoices(gone) ==
  IF gone THEN {[chunks |-> <<>>, err |-> <<>>, fail |-> [at |-> 0, exc |-> "NotFoundError"]]}
  ELSE UNION {
         {[chunks |-> c, err |-> x, fail |-> NoFail] : x \in StderrOutputs}
           \cup {[chunks |-> c, err |-> <<>>, fail |-> [at |-> Len(c), exc |-> x]] :
                   x \in {"Exception", "NotFoundError"}}
           \cup {[chunks |-> c, err |-> <<>>, fail |-> [at |-> Len(c) + 1, exc |-> "Exception"]]} :
         c \in StreamOutputs}

ErrorEvent(message) == Dumps("e", message) \o <<NL>>
DoneLine == DoneEvent \o <<NL>>
RestartNotice == Dumps("s", <<"[Kernel restarting...]", NL>>) \o <<NL>>

StreamResponse(failed, log, recreated, wfail) ==
  [kind |-> "stream", failed |-> failed, log |-> log, recreated |-> recreated,
   wfail |-> wfail]

\* event_generator up to its retry loop.
stream_execute_cell_begin ==
  /\ call = Idle
  /\ \E cell_id \in RequestCellIds \ {None}, raw \in StoredGpuValues,
        q \in {"", "gpu", "cells"}, f1 \in GetFaults, f2 \in CreateFaults,
        cells_data \in CellsData :
       LET gpu == get_workspace_gpu(raw)
           s == ensure_sandbox(Env, gpu, f1, f2)
           cells == get_workspace_cells(cells_data)
           found == Select(cells, {i \in DOMAIN cells : Matches(cells[i], cell_id)})
           Finish(e, snaps, events, failed) ==
             /\ SetEnv(e) /\ ops' = snaps /\ delivered' = events /\ call' = Returned
             /\ writes' = <<>>
             /\ resp' = StreamResponse(failed, <<>>, <<>>, FALSE)
           Failed(e, snaps, exc) ==
             Finish(e, snaps, <<ErrorEvent(<<exc>>), DoneLine>>, exc)
       IN IF q = "gpu" THEN Failed(Env, <<>>, "Exception")
          ELSE IF s.raised THEN Failed(s.e, s.snaps, "Exception")
          ELSE IF q = "cells" THEN Failed(s.e, s.snaps, "Exception")
          ELSE IF found = <<>>
            THEN Finish(s.e, s.snaps, <<ErrorEvent(<<"Cell not found">>), DoneLine>>, "")
          ELSE IF Head(found).type # "code"
            THEN Finish(s.e, s.snaps, <<ErrorEvent(<<"Not a code cell">>), DoneLine>>, "")
          ELSE /\ SetEnv(s.e)
               /\ ops' = s.snaps
               /\ delivered' = <<>>
               /\ writes' = <<Clear(Head(found))>>
               /\ resp' = NoResp
               /\ call' = [kind |-> "stream", phase |-> "attempt", cell |-> Head(found),
                           sandbox_id |-> s.ret, gpu |-> gpu, retried |-> FALSE,
                           log |-> <<>>, recreated |-> <<>>, wfail |-> FALSE]
  /\ UNCHANGED pkl

\* except NotFoundError: retry unless this call already has.
StreamRetries_Always(retried) == TRUE

StreamRetries(retried) == ~retried

\* One turn of the retry loop: the spawn, its events forwarded as they come,
\* and the handling of the exception that ends it.
stream_execute_cell_attempt ==
  /\ call.kind = "stream"
  /\ call.phase = "attempt"
  /\ \E ch \in StreamChoices(call.sandbox_id \notin live) :
     \E r \in {stream_execute_on_kernel(call.cell, ch.chunks, ch.err, ch.fail)} :
       LET log == call.log \o <<LogEntry(call.cell, call.sandbox_id,
                                         IF r.raised = "" THEN "ok" ELSE r.raised)>>
       IN /\ live' = IF r.raised = "NotFoundError" THEN live \ {call.sandbox_id} ELSE live
          /\ writes' = writes \o r.saves
          /\ ops' = <<[op |-> "stream", out |-> ch.chunks, err |-> ch.err,
                       fail |-> ch.fail.exc, raised |-> r.raised]>>
          /\ IF r.raised = ""
             THEN /\ delivered' = delivered \o r.events
                  /\ call' = Returned
                  /\ resp' = StreamResponse("", log, call.recreated, call.wfail)
             ELSE IF r.raised = "NotFoundError" /\ StreamRetries(call.retried)
             THEN /\ delivered' = delivered \o r.events \o <<RestartNotice>>
                  /\ call' = [call EXCEPT !.phase = "recreate", !.log = log]
                  /\ resp' = NoResp
             ELSE /\ delivered' = delivered \o r.events
                                    \o <<ErrorEvent(<<r.raised>>), DoneLine>>
                  /\ call' = Returned
                  /\ resp' = StreamResponse(r.raised, log, call.recreated, call.wfail)
  /\ UNCHANGED <<store, nextId>>
  /\ UNCHANGED pkl

\* The handler's terminate_kernel and create_sandbox.
stream_execute_cell_recreate ==
  /\ call.kind = "stream"
  /\ call.phase = "recreate"
  /\ \E f1 \in TerminateFaults, f2 \in CreateFaults :
     \E c \in {create_sandbox(terminate_kernel(Env, f1).e, call.gpu, f2)} :
       LET recreated == call.recreated \o <<call.cell.id>>
       IN /\ SetEnv(c.e)
          /\ ops' = <<>>
          /\ IF c.raised
             THEN /\ delivered' = delivered \o <<ErrorEvent(<<"Exception">>), DoneLine>>
                  /\ call' = Returned
                  /\ resp' = StreamResponse("Exception", call.log, recreated, FALSE)
             ELSE /\ delivered' = delivered
                  /\ call' = [call EXCEPT !.phase = "attempt", !.sandbox_id = c.ret,
                                          !.retried = TRUE, !.recreated = recreated,
                                          !.wfail = "w" \in f2]
                  /\ resp' = NoResp
  /\ UNCHANGED writes
  /\ UNCHANGED pkl

Next ==
  \/ Respond
  \/ kernel_status
  \/ start_kernel
  \/ stop_kernel
  \/ restart_kernel
  \/ Expire
  \/ execute_cells_begin
  \/ execute_cells_exec
  \/ execute_cells_recreate
  \/ stream_execute_cell_begin
  \/ stream_execute_cell_attempt
  \/ stream_execute_cell_recreate

Spec == Init /\ [][Next]_vars

\* The streaming endpoint by itself: a server that is asked for streams only,
\* on sandboxes that expire.
StreamNext ==
  \/ Respond
  \/ Expire
  \/ stream_execute_cell_begin
  \/ stream_execute_cell_attempt
  \/ stream_execute_cell_recreate

SpecStream == Init /\ [][StreamNext]_vars

\* ------------------------------- a streaming caller that stops consuming
\* The response stops iterating event_generator while it is suspended at a
\* yield: the generator is closed there (GeneratorExit, which no
\* `except Exception` catches), and so is stream_execute_on_kernel at the
\* yield that was forwarded.  Nothing after that yield runs; the process is
\* left running.

\* (mutant) the outputs accumulated so far are saved when the stream is closed
stream_execute_cell_close_Saving ==
  /\ call.kind = "stream"
  /\ call.phase = "attempt"
  /\ \E ch \in StreamChoices(call.sandbox_id \notin live) :
     \E r \in {stream_execute_on_kernel(call.cell, ch.chunks, ch.err, NoFail)} :
     \E k \in 1..Len(r.events) :
       /\ delivered' = delivered \o SubSeq(r.events, 1, k)
       /\ writes' = writes \o r.saves
       /\ ops' = <<[op |-> "stream", out |-> ch.chunks, err |-> ch.err,
                    fail |-> ch.fail.exc, raised |-> "GeneratorExit"]>>
       /\ resp' = StreamResponse("GeneratorExit",
                                 call.log \o <<LogEntry(call.cell, call.sandbox_id, "GeneratorExit")>>,
                                 call.recreated, call.wfail)
  /\ call' = Returned
  /\ UNCHANGED <<store, live, nextId, pkl>>

\* Closed at the k-th yield of a spawn: the events up to it were forwarded,
\* the saves at the end of stream_execute_on_kernel are never reached.
stream_execute_cell_close ==
  /\ call.kind = "stream"
  /\ call.phase = "attempt"
  /\ \E ch \in StreamChoices(call.sandbox_id \notin live) :
     \E r \in {stream_execute_on_kernel(call.cell, ch.chunks, ch.err, ch.fail)} :
     \E k \in 1..Len(r.events) :
       /\ delivered' = delivered \o SubSeq(r.events, 1, k)
       /\ writes' = writes
       /\ ops' = <<[op |-> "stream", out |-> ch.chunks, err |-> ch.err,
                    fail |-> ch.fail.exc, raised |-> "GeneratorExit"]>>
       /\ resp' = StreamResponse("GeneratorExit",
                                 call.log \o <<LogEntry(call.cell, call.sandbox_id, "GeneratorExit")>>,
                                 call.recreated, call.wfail)
  /\ call' = Returned
  /\ UNCHANGED <<store, live, nextId, pkl>>

\* Closed at the yield of the restart notice: no terminate, no create.
stream_execute_cell_close_notice ==
  /\ call.kind = "stream"
  /\ call.phase = "recreate"
  /\ resp' = StreamResponse("GeneratorExit", call.log, call.recreated, call.wfail)
  /\ ops' = <<>>
  /\ call' = Returned
  /\ UNCHANGED <<store, live, nextId, delivered, writes, pkl>>

CloseNext ==
  \/ StreamNext
  \/ stream_execute_cell_close
  \/ stream_execute_cell_close_notice

SpecClose == Init /\ [][CloseNext]_vars

\* ------------------------- the stream executor, its input read by character

\* What a process may write to standard output in one write: an event of the
\* generated program, or text written past it (a bare JSON value, text that
\* is no JSON, blanks), with or without the newline that ends the line.
PieceLines == {Dumps("s", <<"a">>), DoneEvent, UntypedObject, ValueLine5, <<"x">>, <<Space>>}
Pieces == PieceLines \cup {l \o <<NL>> : l \in PieceLines}

\* The chunks in which the provider hands over a text: the text cut at the
\* offsets i <= j, empty chunks left out.
Chunks(text, i, j) ==
  LET parts == <<SubSeq(text, 1, i), SubSeq(text, i + 1, j), SubSeq(text, j + 1, Len(text))>>
  IN Select(parts, {k \in 1..3 : parts[k] # <<>>})

ParseCell == Cell(1)

ParseInit ==
  /\ store = None
  /\ live = {}
  /\ nextId = 1
  /\ call = [kind |-> "process", text |-> <<>>, pieces |-> 0]
  /\ ops = <<>>
  /\ delivered = <<>>
  /\ writes = <<>>
  /\ resp = NoResp
  /\ pkl = NoFile

\* The spawned process writes to its standard output.
ProcessWrite ==
  /\ call.kind = "process"
  /\ call.pieces < MaxPieces
  /\ \E p \in Pieces :
       call' = [call EXCEPT !.text = @ \o p, !.pieces = @ + 1]
  /\ UNCHANGED <<store, live, nextId, ops, delivered, writes, resp>>
  /\ UNCHANGED pkl

\* The process exits and stream_execute_on_kernel, consumed to its end, has
\* read its output in some chunks; whole is what it does with the same output
\* arriving in one chunk.
StreamRead ==
  /\ call.kind = "process"
  /\ \E i \in 0..Len(call.text) : \E j \in i..Len(call.text) : \E err \in StderrOutputs :
     \E chunks \in {Chunks(call.text, i, j)} :
     \E r \in {stream_execute_on_kernel(ParseCell, chunks, err, NoFail)} :
       /\ delivered' = r.events
       /\ writes' = r.saves
       /\ ops' = <<[op |-> "stream", out |-> chunks, err |-> err, raised |-> r.raised]>>
       /\ resp' = [kind |-> "parsed", text |-> call.text, raised |-> r.raised,
                   whole |-> stream_execute_on_kernel(
                               ParseCell, IF call.text = <<>> THEN <<>> ELSE <<call.text>>,
                               err, NoFail)]
  /\ call' = Returned
  /\ UNCHANGED <<store, live, nextId>>
  /\ UNCHANGED pkl

ParseNext == ProcessWrite \/ StreamRead

SpecParse == ParseInit /\ [][ParseNext]_vars

\* ------------------------ the batch executor, its input of any length
\* A line of n characters that is no JSON, its newline included.
RawLine(n) == BatchLine("invalid", NoRecord, [i \in 1..n |-> IF i = n THEN NL ELSE "x"])

\* What a batch process may write to standard output in one line: raw text
\* of some length, the record of the wrapper, a bare JSON value.
OutLines ==
  {RawLine(n) : n \in {1, 2, 250, 499}}
    \cup {RecordLine(ParseCell, FALSE), StderrRecordLine(ParseCell), ValueLine}

BatchReadInit ==
  /\ store = None
  /\ live = {}
  /\ nextId = 1
  /\ call = [kind |-> "batchprocess", output_lines |-> <<>>]
  /\ ops = <<>>
  /\ delivered = <<>>
  /\ writes = <<>>
  /\ resp = NoResp
  /\ pkl = NoFile

\* The spawned process writes a line to its standard output.
BatchWrite ==
  /\ call.kind = "batchprocess"
  /\ Len(call.output_lines) < MaxOutLines
  /\ \E l \in OutLines : call' = [call EXCEPT !.output_lines = Append(@, l)]
  /\ UNCHANGED <<store, live, nextId, ops, delivered, writes, resp, pkl>>

\* The process exits and execute_on_kernel makes its result of the output.
BatchRead ==
  /\ call.kind = "batchprocess"
  /\ \E err \in StderrOutputs :
       /\ resp' = [kind |-> "batchread"]
                    @@ execute_on_kernel(ParseCell, call.output_lines, err)
       /\ ops' = <<[op |-> "execute", out |-> call.output_lines, err |-> err]>>
  /\ call' = Returned
  /\ UNCHANGED <<store, live, nextId, delivered, writes, pkl>>

BatchReadNext == BatchWrite \/ BatchRead

SpecBatchRead == BatchReadInit /\ [][BatchReadNext]_vars

\* ------------------------- two calls of the context manager interleaved
\* ensure_sandbox and create_sandbox are coroutines of one event loop: a
\* call runs alone up to its next await of the provider (Sandbox.from_id,
\* Sandbox.create), where the other call may run.  The store calls are
\* synchronous.  call.task[t] is the position of call t.
Callers == {1, 2}

Task(pc, sandbox_id, made, ret, raised) ==
  [pc |-> pc, sandbox_id |-> sandbox_id, made |-> made, ret |-> ret, raised |-> raised]

\* One write of the stored id, as the store saw it.
StoreWrite(t, id, wfail) == [by |-> t, id |-> id, landed |-> ~wfail]

\* Two calls arrive; nothing is stored, or the id of a context that is gone.
RaceInit ==
  /\ \E stale \in {None, 1} :
       /\ store = stale
       /\ nextId = stale + 1
  /\ live = {}
  /\ call \in {[kind |-> "race", task |-> tk] :
                 tk \in [Callers -> {Task("ensure", None, None, None, FALSE),
                                     Task("create", None, None, None, FALSE)}]}
  /\ ops = <<>>
  /\ delivered = <<>>
  /\ writes = <<>>
  /\ resp = NoResp
  /\ pkl = NoFile

At(t, pc) == call.kind = "race" /\ call.task[t].pc = pc

\* ensure_sandbox up to its first await: get_sandbox_id reads the store and,
\* if an id is stored, awaits Sandbox.from_id; else create_sandbox is entered
\* and awaits Sandbox.create.
ensure_read(t) ==
  /\ At(t, "ensure")
  /\ \E rfail \in BOOLEAN :
       LET sandbox_id == get_workspace_kernel_id(Env, rfail) IN
       call' = [call EXCEPT !.task[t] =
                  IF sandbox_id = None THEN [@ EXCEPT !.pc = "create"]
                  ELSE [@ EXCEPT !.pc = "from_id", !.sandbox_id = sandbox_id]]
  /\ UNCHANGED <<store, live, nextId, ops, delivered, writes, resp, pkl>>

\* Sandbox.from_id returns or raises: the stored id is returned, or cleared
\* and create_sandbox entered.
ensure_from_id(t) ==
  /\ At(t, "from_id")
  /\ \E lfail \in BOOLEAN, wfail \in BOOLEAN :
       IF from_id_ok(Env, call.task[t].sandbox_id, lfail)
       THEN /\ call' = [call EXCEPT !.task[t].pc = "done",
                                     !.task[t].ret = call.task[t].sandbox_id]
            /\ UNCHANGED <<store, live, nextId, writes>>
       ELSE /\ SetEnv(set_workspace_kernel_id(Env, None, wfail))
            /\ writes' = Append(writes, StoreWrite(t, None, wfail))
            /\ call' = [call EXCEPT !.task[t].pc = "create"]
  /\ UNCHANGED <<ops, delivered, resp, pkl>>

\* The provider serves Sandbox.create while the call is suspended.
sandbox_create(t) ==
  /\ At(t, "create")
  /\ \E cfail \in BOOLEAN :
       IF CreateFails(Env, cfail)
       THEN /\ call' = [call EXCEPT !.task[t].pc = "done", !.task[t].raised = TRUE]
            /\ UNCHANGED <<live, nextId>>
       ELSE /\ live' = live \cup {nextId}
            /\ nextId' = nextId + 1
            /\ call' = [call EXCEPT !.task[t].pc = "created", !.task[t].made = nextId]
  /\ UNCHANGED <<store, ops, delivered, writes, resp, pkl>>

\* (mutant) the id is stored only when none is stored
create_return_IfUnset(t) ==
  /\ At(t, "created")
  /\ \E wfail \in BOOLEAN :
       /\ SetEnv(IF store = None
                 THEN set_workspace_kernel_id(Env, call.task[t].made, wfail) ELSE Env)
       /\ writes' = Append(writes, StoreWrite(t, call.task[t].made, wfail))
  /\ call' = [call EXCEPT !.task[t].pc = "done", !.task[t].ret = call.task[t].made]
  /\ UNCHANGED <<ops, delivered, resp, pkl>>

\* create_sandbox resumes: the id is stored, whatever is stored, and returned.
create_return(t) ==
  /\ At(t, "created")
  /\ \E wfail \in BOOLEAN :
       /\ SetEnv(set_workspace_kernel_id(Env, call.task[t].made, wfail))
       /\ writes' = Append(writes, StoreWrite(t, call.task[t].made, wfail))
  /\ call' = [call EXCEPT !.task[t].pc = "done", !.task[t].ret = call.task[t].made]
  /\ UNCHANGED <<ops, delivered, resp, pkl>>

RaceNext ==
  \E t \in Callers :
    \/ ensure_read(t)
    \/ ensure_from_id(t)
    \/ sandbox_create(t)
    \/ create_return(t)

SpecRace == RaceInit /\ [][RaceNext]_vars

\* ------------------------------- ensure_sandbox called twice in a row
\* Every request of the execute routes begins with ensure_sandbox.  Two
\* requests follow one another on a workspace whose stored id, if any, names
\* a sandbox that is live or gone; ops keeps what each call did.
EnsureInit ==
  /\ nextId \in 1..MaxCtx
  /\ live \in SUBSET (1..(nextId - 1))
  /\ store \in {None} \cup 1..(nextId - 1)
  /\ call = [kind |-> "ensure"]
  /\ ops = <<>>
  /\ delivered = <<>>
  /\ writes = <<>>
  /\ resp = NoResp
  /\ pkl = NoFile

\* One request's await of ensure_sandbox.
ensure_call ==
  /\ call.kind = "ensure"
  /\ Len(ops) < 2
  /\ \E f1 \in GetFaults, f2 \in CreateFaults :
       LET s == ensure_sandbox(Env, "T4", f1, f2)
       IN /\ SetEnv(s.e)
          /\ ops' = ops \o s.snaps
  /\ UNCHANGED <<call, delivered, writes, resp, pkl>>

\* A sandbox reaches its timeout between the two requests.
ExpireBetween ==
  /\ call.kind = "ensure"
  /\ Len(ops) = 1
  /\ \E id \in live : live' = live \ {id}
  /\ UNCHANGED <<store, nextId, call, ops, delivered, writes, resp, pkl>>

EnsureNext == ensure_call \/ ExpireBetween

SpecEnsure == EnsureInit /\ [][EnsureNext]_vars

\* --------------------- the stream executor, its events of every type
\* The complete lines a streaming process may write: the events of the
\* generated program (stdout, two images, a text and a dataframe result, two
\* error messages, done) and a line of text written past it.
MaxEvents == 3
EventLines ==
  {emit("s", <<"a", NL>>), emit("i", Image), emit("i", <<"iVBOR2">>),
   emit("r", <<"1">>), emit("R", <<"<table>">>),
   emit("e", <<"E1">>), emit("e", <<"E2">>), emit("d", <<>>), <<"x", NL>>}

PersistInit ==
  /\ store = None
  /\ live = {}
  /\ nextId = 1
  /\ call = [kind |-> "events", out |-> <<>>]
  /\ ops = <<>>
  /\ delivered = <<>>
  /\ writes = <<>>
  /\ resp = NoResp
  /\ pkl = NoFile

\* The spawned process writes one more line.
EventWrite ==
  /\ call.kind = "events"
  /\ Len(call.out) < MaxEvents
  /\ \E l \in EventLines : call' = [call EXCEPT !.out = Append(@, l)]
  /\ UNCHANGED <<store, live, nextId, ops, delivered, writes, resp, pkl>>

\* The process exits and stream_execute_on_kernel is consumed to its end.
StreamPersist ==
  /\ call.kind = "events"
  /\ \E err \in StderrOutputs :
     \E r \in {stream_execute_on_kernel(ParseCell, call.out, err, NoFail)} :
       /\ delivered' = r.events
       /\ writes' = r.saves
       /\ ops' = <<[op |-> "stream", out |-> call.out, err |-> err, raised |-> r.raised]>>
       /\ resp' = [kind |-> "persisted", raised |-> r.raised]
  /\ call' = Returned
  /\ UNCHANGED <<store, live, nextId, pkl>>

PersistNext == EventWrite \/ StreamPersist

SpecPersist == PersistInit /\ [][PersistNext]_vars

\* ------------------------------------------- the magics of a fragment
\* A code is a sequence of characters; the fixed texts the preprocessor
\* writes are single elements of the rewritten code.

\* t.startswith(p) and t[n:]
StartsWith(t, p) == Len(t) >= Len(p) /\ SubSeq(t, 1, Len(p)) = p
Drop(t, n) == SubSeq(t, n + 1, Len(t))

\* index of the first c of t, 0 when it has none
Find(t, c) ==
  IF \E i \in 1..Len(t) : t[i] = c
  THEN CHOOSE i \in 1..Len(t) : t[i] = c /\ \A j \in 1..(i - 1) : t[j] # c
  ELSE 0

RECURSIVE Split(_, _)
\* t.split(c)
Split(t, c) ==
  IF Find(t, c) = 0 THEN <<t>>
  ELSE <<SubSeq(t, 1, Find(t, c) - 1)>> \o Split(Drop(t, Find(t, c)), c)

RECURSIVE Words(_)
\* t.split(): the runs of characters that are not whitespace
Words(t) ==
  LET s == LStrip(t)
      n == IF \E i \in 1..Len(s) : s[i] \in Whitespace
           THEN (CHOOSE i \in 1..Len(s) :
                   s[i] \in Whitespace /\ \A j \in 1..(i - 1) : s[j] \notin Whitespace) - 1
           ELSE Len(s)
  IN IF s = <<>> THEN <<>> ELSE <<SubSeq(s, 1, n)>> \o Words(Drop(s, n))

RECURSIVE JoinWith(_, _)
\* sep.join(parts)
JoinWith(sep, parts) ==
  IF parts = <<>> THEN <<>>
  ELSE IF Len(parts) = 1 THEN parts[1]
  ELSE parts[1] \o sep \o JoinWith(sep, Tail(parts))

\* repr of a str of these characters
ReprStr(t) ==
  <<"'">> \o Join([i \in 1..Len(t) |-> IF t[i] = Tab THEN <<BS, "t">>
                                        ELSE IF t[i] = NL THEN <<BS, "n">>
                                        ELSE <<t[i]>>]) \o <<"'">>

MagicPip == <<"%", "p", "i", "p">>
MagicConda == <<"%", "c", "o", "n", "d", "a">>
MagicCd == <<"%", "c", "d">>
MagicEnv == <<"%", "e", "n", "v">>

\* The body of the loop of preprocess_ipython_magics: one line rewritten.
RewriteLine(line) ==
  LET stripped == LStrip(line)
      indent == SubSeq(line, 1, Len(line) - Len(stripped))
      env_expr == Strip(Drop(stripped, 5))
      eq == Find(env_expr, "=")
  IN
  IF StartsWith(stripped, <<"!">>)
  THEN indent \o <<"import subprocess; subprocess.run(">>
         \o ReprStr(Drop(stripped, 1)) \o <<", shell=True)">>
  ELSE IF StartsWith(stripped, <<"%", "%">>)
  THEN indent \o <<"# Cell magic not supported: ">> \o stripped
  ELSE IF \/ StartsWith(stripped, MagicPip \o <<Space>>)
          \/ StartsWith(stripped, MagicPip \o <<Tab>>)
  THEN LET args == Words(Strip(Drop(stripped, 5))) IN
       indent \o <<"import subprocess; subprocess.run([\"pip\", ">>
         \o JoinWith(<<", ">>, [i \in 1..Len(args) |-> ReprStr(args[i])]) \o <<"])">>
  ELSE IF StartsWith(stripped, MagicConda \o <<Space>>)
  THEN LET args == Words(Strip(Drop(stripped, 7))) IN
       indent \o <<"import subprocess; subprocess.run([\"conda\", ">>
         \o JoinWith(<<", ">>, [i \in 1..Len(args) |-> ReprStr(args[i])]) \o <<"])">>
  ELSE IF StartsWith(stripped, MagicCd \o <<Space>>)
  THEN indent \o <<"import os; os.chdir(">>
         \o ReprStr(Strip(Drop(stripped, 4))) \o <<")">>
  ELSE IF StartsWith(stripped, MagicEnv \o <<Space>>)
  THEN IF eq # 0
       THEN indent \o <<"import os; os.environ[">>
              \o ReprStr(Strip(SubSeq(env_expr, 1, eq - 1))) \o <<"] = ">>
              \o ReprStr(Strip(Drop(env_expr, eq)))
       ELSE indent \o <<"import os; print(os.environ.get(">>
              \o ReprStr(env_expr) \o <<", \"\"))">>
  ELSE IF StartsWith(stripped, <<"%">>)
  THEN indent \o <<"# Line magic not supported: ">> \o stripped
  ELSE line

\* (mutant) every rewritten line loses its indentation
preprocess_ipython_magics_Dedent(code) ==
  LET lines == Split(code, NL) IN
  JoinWith(<<NL>>, [i \in 1..Len(lines) |-> LStrip(RewriteLine(lines[i]))])

preprocess_ipython_magics(code) ==
  LET lines == Split(code, NL) IN
  JoinWith(<<NL>>, [i \in 1..Len(lines) |-> RewriteLine(lines[i])])

\* The lines the fragments are made of: an indentation, the start of a
\* rule (or of none), and the rest of the line.
MaxCodeLines == 2
MagicLines ==
  {ind \o head \o rest :
     ind \in {<<>>, <<Space, Tab>>},
     head \in {<<"!">>, <<"%">> \o MagicPip, MagicPip, MagicConda, MagicCd, MagicEnv,
               <<"x">>},
     rest \in {<<>>, <<Space, "a", Tab, "b", Space>>, <<Tab, "a">>,
               <<Space, "k", "=", Space, "v">>}}
\* The codes of up to n lines.
Codes(n) ==
  {<<>>} \cup {JoinWith(<<NL>>, ls) : ls \in UNION {[1..k -> MagicLines] : k \in 1..n}}

MagicInit ==
  /\ store = None
  /\ live = {}
  /\ nextId = 1
  /\ call \in {[kind |-> "preprocess", code |-> c] : c \in Codes(MaxCodeLines)}
  /\ ops = <<>>
  /\ delivered = <<>>
  /\ writes = <<>>
  /\ resp = NoResp
  /\ pkl = NoFile

\* execute_on_kernel and stream_execute_on_kernel, first statement.
preprocess ==
  /\ call.kind = "preprocess"
  /\ resp' = [kind |-> "preprocessed", input |-> call.code,
              code |-> preprocess_ipython_magics(call.code)]
  /\ call' = Returned
  /\ UNCHANGED <<store, live, nextId, ops, delivered, writes, pkl>>

MagicNext == preprocess

SpecMagic == MagicInit /\ [][MagicNext]_vars

\* ------------------------- the cell outputs written to a store that fails
\* clear_cell_outputs and save_cell_output against a store that rejects the
\* mutation (fail): what was sent, whether it landed, and what is raised.
clear_cell_outputs(cell, fail) == [sent |-> Clear(cell), landed |-> ~fail, raised |-> ""]

\* (mutant) the failure of the mutation raised to the caller
save_cell_output_Raise(cell, type, content, fail) ==
  [sent |-> Save(cell, type, content), landed |-> ~fail,
   raised |-> IF fail THEN "Exception" ELSE ""]

save_cell_output(cell, type, content, fail) ==
  [sent |-> Save(cell, type, content), landed |-> ~fail, raised |-> ""]

\* The calls of save_cell_output for the mutations ms, one after the other,
\* those at the indices in down failing, up to the first that raises.
SaveAll(cell, ms, down) ==
  LET r == [i \in 1..Len(ms) |-> save_cell_output(cell, ms[i].type, ms[i].content, i \in down)]
      bad == {i \in 1..Len(ms) : r[i].raised # ""}
      last == IF bad = {} THEN Len(ms) ELSE CHOOSE i \in bad : \A j \in bad : i <= j
  IN [writes |-> [i \in 1..last |-> [sent |-> r[i].sent, landed |-> r[i].landed]],
      made |-> IF bad = {} THEN Len(ms) ELSE last - 1,
      raised |-> IF bad = {} THEN "" ELSE r[last].raised]

\* One iteration of the loop of execute_cells whose execute_on_kernel
\* returned result: the outputs appended and saved, and the response when
\* the cell is the only one.
ProcessOutputs(cell, result, down) ==
  LET c == clear_cell_outputs(cell, 0 \in down)
      o == CellOutputs(cell, result)
      s == SaveAll(cell, o, down)
  IN [writes |-> <<[sent |-> c.sent, landed |-> c.landed]>> \o s.writes,
      resp |-> IF s.raised # "" THEN execute_cells_except(s.raised)
               ELSE ExecuteResponse(TRUE, o, NoneText)]

\* event_generator from clear_cell_outputs on, for one spawn that reads
\* chunks and stderr_lines: the lines forwarded and the mutations sent.
StreamAndSave(cell, chunks, stderr_lines, down) ==
  LET c == clear_cell_outputs(cell, 0 \in down)
      r == stream_execute_on_kernel(cell, chunks, stderr_lines, NoFail)
      s == SaveAll(cell, r.saves, down)
      raised == IF r.raised # "" THEN r.raised ELSE s.raised
  IN [writes |-> <<[sent |-> c.sent, landed |-> c.landed]>> \o s.writes,
      events |-> r.events \o (IF raised # "" THEN <<ErrorEvent(<<raised>>), DoneLine>>
                               ELSE <<>>)]

\* The results execute_on_kernel returns as records.
BatchRecords ==
  {execute_on_kernel(ParseCell, out, err).result :
     out \in {<<>>, <<RecordLine(ParseCell, FALSE)>>, <<RecordLine(ParseCell, TRUE)>>,
              <<TextLine>>},
     err \in StderrOutputs}

SaveInit ==
  /\ store = None
  /\ live = {}
  /\ nextId = 1
  /\ call = Idle
  /\ ops = <<>>
  /\ delivered = <<>>
  /\ writes = <<>>
  /\ resp = NoResp
  /\ pkl = NoFile

\* execute_cells for one cell, from clear_cell_outputs on; ideal is the
\* response with every mutation landing.
execute_cells_outputs ==
  /\ call = Idle
  /\ \E result \in BatchRecords :
     \E down \in SUBSET (0..Len(CellOutputs(ParseCell, result))) :
     \E r \in {ProcessOutputs(ParseCell, result, down)} :
       /\ writes' = r.writes
       /\ resp' = r.resp @@ [ideal |-> ProcessOutputs(ParseCell, result, {}).resp]
       /\ ops' = <<[op |-> "outputs", down |-> down]>>
  /\ call' = Returned
  /\ UNCHANGED <<store, live, nextId, delivered, pkl>>

\* event_generator for one spawn, from clear_cell_outputs on; ideal is what
\* is forwarded with every mutation landing.
stream_outputs ==
  /\ call = Idle
  /\ \E chunks \in StreamOutputs, err \in StderrOutputs :
     \E down \in SUBSET (0..Len(stream_execute_on_kernel(ParseCell, chunks, err, NoFail).saves)) :
     \E r \in {StreamAndSave(ParseCell, chunks, err, down)} :
       /\ writes' = r.writes
       /\ delivered' = r.events
       /\ resp' = [kind |-> "streamed",
                   ideal |-> StreamAndSave(ParseCell, chunks, err, {}).events]
       /\ ops' = <<[op |-> "outputs", down |-> down]>>
  /\ call' = Returned
  /\ UNCHANGED <<store, live, nextId, pkl>>

SaveNext == execute_cells_outputs \/ stream_outputs

SpecSave == SaveInit /\ [][SaveNext]_vars

\* --------------------- the generated programs run on one context, in turn
WrapperInit ==
  /\ store = None
  /\ live = {}
  /\ nextId = 1
  /\ call = Idle
  /\ ops = <<>>
  /\ delivered = <<>>
  /\ writes = <<>>
  /\ resp = NoResp
  /\ pkl = NoFile

\* python -u -c exec_wrapper, up to the user code: the next fragment is run
\* on the context once the process of the one before has exited.
program_spawn ==
  /\ call = Idle \/ (call.kind = "program" /\ call.pc = "exited")
  /\ \E mode \in {"batch", "stream"} : call' = Program(mode, pkl)
  /\ delivered' = <<>>
  /\ UNCHANGED <<store, live, nextId, ops, writes, resp, pkl>>

\* exec of a statement that is not the last of the fragment, or is the last
\* and no bare expression.
user_exec ==
  /\ call.kind = "program"
  /\ call.pc = "user"
  /\ call.n < MaxStmts
  /\ \E s \in Statements :
       /\ s.kind = "expr" => call.n + 1 < MaxStmts
       /\ \E r \in {Step(call, s, FALSE)} :
            /\ call' = r.p
            /\ delivered' = delivered \o r.events
  /\ UNCHANGED <<store, live, nextId, ops, writes, resp, pkl>>

\* eval of the bare expression that is the last statement of the fragment.
user_eval ==
  /\ call.kind = "program"
  /\ call.pc = "user"
  /\ call.n < MaxStmts
  /\ \E s \in Expressions : \E r \in {Step(call, s, TRUE)} :
       /\ call' = r.p
       /\ delivered' = delivered \o r.events
  /\ UNCHANGED <<store, live, nextId, ops, writes, resp, pkl>>

\* The fragment is over: it was empty, or its last statement was run by exec.
user_end ==
  /\ call.kind = "program"
  /\ call.pc = "user"
  /\ call.last.kind # "expr"
  /\ call' = [call EXCEPT !.pc = "epilogue"]
  /\ UNCHANGED <<store, live, nextId, ops, delivered, writes, resp, pkl>>

\* ast.parse raises SyntaxError, and so does compile.
user_syntax_error ==
  /\ call.kind = "program"
  /\ call.pc = "user"
  /\ call.n = 0
  /\ call' = [call EXCEPT !.pc = "epilogue", !.error = Trace("SyntaxError"),
                          !.last = Stmt("syntax", "", "", <<>>)]
  /\ UNCHANGED <<store, live, nextId, ops, delivered, writes, resp, pkl>>

\* The program after its user code: flush, capture of the figures, the
\* namespace persisted, and the final events or the record.
program_epilogue ==
  /\ call.kind = "program"
  /\ call.pc = "epilogue"
  /\ pkl' = PersistGlobals(call.globals)
  /\ delivered' = IF call.mode = "stream" THEN delivered \o FinalEvents(call)
                  ELSE <<FinalRecord(ParseCell, call)>>
  /\ call' = [call EXCEPT !.pc = "exited", !.buffer = <<>>, !.finished = TRUE]
  /\ UNCHANGED <<store, live, nextId, ops, writes, resp>>

WrapperNext ==
  \/ program_spawn
  \/ user_exec
  \/ user_eval
  \/ user_end
  \/ user_syntax_error
  \/ program_epilogue

SpecWrapper == WrapperInit /\ [][WrapperNext]_vars

\* ------------------------------------------------------------ properties

\* The type of a line forwarded to a streaming caller.
DeliveredType(l) ==
  LET line == SubSeq(l, 1, Len(l) - 1) IN
  IF JsonKind(line) = "object" THEN TagType(line[2]) ELSE "none"

DeliveredTypes == [i \in 1..Len(delivered) |-> DeliveredType(delivered[i])]

DoneCount == Cardinality({i \in 1..Len(delivered) : DeliveredTypes[i] = "done"})

StreamEnded == call = Returned /\ resp.kind = "stream"
BatchEnded == call = Returned /\ resp.kind = "execute"

\* The spawns and the recreations of the streaming / batch call in flight or
\* just finished.
StreamLog ==
  IF call.kind = "stream" THEN call.log
  ELSE IF StreamEnded THEN resp.log ELSE <<>>

StreamRecreated ==
  IF call.kind = "stream" THEN call.recreated
  ELSE IF StreamEnded THEN resp.recreated ELSE <<>>

BatchLog ==
  IF call.kind = "batch" THEN call.log
  ELSE IF BatchEnded THEN resp.log ELSE <<>>

BatchRecreated ==
  IF call.kind = "batch" THEN call.recreated
  ELSE IF BatchEnded THEN resp.recreated ELSE <<>>

\* The first spawn hit a lost sandbox and every later one succeeded.
Recovered(log) ==
  /\ Len(log) >= 2
  /\ log[1].outcome = "NotFoundError"
  /\ \A i \in 2..Len(log) : log[i].outcome = "ok"

\* C1: every finished streaming call has delivered exactly one event of
\* type done to its caller, whatever path the call took.
C1_ExactlyOneDone == StreamEnded => DoneCount = 1

\* C2: the last event a finished streaming call delivered is done, and no
\* event of another type was forwarded after a done event.
C2_DoneIsLast ==
  StreamEnded =>
    /\ delivered # <<>>
    /\ DeliveredTypes[Len(delivered)] = "done"
    /\ \A i, j \in 1..Len(delivered) :
         i < j /\ DeliveredTypes[i] = "done" => DeliveredTypes[j] = "done"

\* C3: when the spawned streaming process ran to its exit having written
\* nothing to standard output, the caller still received an error event and
\* a final done event.
C3_SilentExitReported ==
  (/\ StreamEnded
   /\ ops # <<>>
   /\ ops[1].op = "stream"
   /\ ops[1].raised = ""
   /\ ops[1].out = <<>>)
    => /\ \E i \in 1..Len(delivered) : DeliveredTypes[i] = "error"
       /\ delivered # <<>>
       /\ DeliveredTypes[Len(delivered)] = "done"

StreamMeasure ==
  IF call.kind = "stream"
  THEN 2 * (2 - Len(call.log)) + (IF call.phase = "recreate" THEN 1 ELSE 0)
  ELSE 0

C6_Bounded ==
  /\ StreamMeasure \in Nat
  /\ Len(StreamLog) <= 2
  /\ Len(StreamRecreated) <= 1
  /\ Len(StreamLog) = 2 =>
       StreamLog[1].outcome = "NotFoundError" /\ Len(StreamRecreated) = 1
  /\ (call.kind = "stream" /\ call.phase = "recreate") =>
       Len(call.log) = 1 /\ call.recreated = <<>>
  /\ (StreamEnded /\ resp.log # <<>> /\ resp.log[1].outcome = "NotFoundError") =>
       Len(resp.recreated) = 1
  /\ (StreamEnded /\ Len(resp.log) = 2 /\ resp.log[2].outcome = "NotFoundError") =>
       /\ resp.failed = "NotFoundError"
       /\ Len(delivered) >= 2
       /\ DeliveredTypes[Len(delivered) - 1] = "error"
       /\ DeliveredTypes[Len(delivered)] = "done"

C6_Witness ==
  /\ StreamEnded
  /\ Len(resp.log) = 2
  /\ resp.log[2].outcome = "NotFoundError"
  /\ DeliveredTypes[Len(delivered)] = "done"

\* Every step of a streaming call ends it or brings its retry loop nearer
\* to its end.
C6_Progress ==
  call.kind = "stream" => (call' = Returned \/ StreamMeasure' < StreamMeasure)

\* C6: a streaming call spawns the fragment at most twice and recreates the
\* sandbox at most once; a first NotFoundError is followed by one recreation,
\* a second one is not retried: the call ends with an error event followed
\* by done; and the retry loop terminates, each of its steps decreasing a
\* measure that stays a natural number.
C6_AtMostTwoSpawns == []C6_Bounded /\ [][C6_Progress]_vars

\* C7 (as the code has it): within one batch call the sandbox is recreated
\* and the execution retried at most once for each cell the call executes.
C7_OneRetryPerCell ==
  /\ \A i, j \in 1..Len(BatchRecreated) :
       i # j => BatchRecreated[i] # BatchRecreated[j]
  /\ \A i \in 1..Len(BatchRecreated) :
       Cardinality({k \in 1..Len(BatchLog) : BatchLog[k].cell = BatchRecreated[i]}) <= 2
  /\ \A k \in 1..Len(BatchLog) :
       Cardinality({m \in 1..Len(BatchLog) : BatchLog[m].cell = BatchLog[k].cell}) <= 2

C7_Witness ==
  /\ BatchEnded
  /\ Len(resp.recreated) = 2
  /\ resp.recreated[1] # resp.recreated[2]
  /\ resp.success

\* C7 as stated: within one batch call the sandbox is recreated at most once.
C7_OneRetryPerCall == Len(BatchRecreated) <= 1

\* C8 (as the code has it): a batch call raises to its caller only the
\* HTTPException of a cell id that matches no cell; every other failure is a
\* response with success false and a message.
C8_RaisesOnlyCellNotFound ==
  BatchEnded =>
    /\ resp.raised \in {"", "HTTPException"}
    /\ resp.raised = "HTTPException" =>
         resp.error = <<"Cell not found">> /\ resp.log = <<>>
    /\ (resp.raised = "" /\ ~resp.success) => Truthy(resp.error)
    /\ (resp.raised = "" /\ resp.log # <<>> /\ resp.log[Len(resp.log)].outcome # "ok") =>
         ~resp.success

C8_Witness ==
  /\ BatchEnded
  /\ resp.raised = "HTTPException"
  /\ ops # <<>>
  /\ ops[1].op = "ensure"

\* C8 as stated: a batch call never raises, and every failure is a response
\* with success false and a message.
C8_NeverRaises ==
  BatchEnded =>
    /\ resp.raised = ""
    /\ ~resp.success => Truthy(resp.error)

\* C9: at most one sandbox of the workspace is live at the provider.
C9_AtMostOneLive == Cardinality(live) <= 1

C12_StatusExact ==
  \A i \in DOMAIN ops :
    ops[i].op = "status" =>
      LET s == ops[i]
          resolves == s.pre # None /\ s.pre \in s.was /\ "l" \notin s.faults
      IN /\ (s.ret = "not_found") = (s.pre = None)
         /\ (s.ret = "running") = resolves
         /\ (s.ret = "stopped") = (s.pre # None /\ ~resolves)
         /\ s.ret = "running" => s.post = s.pre
         /\ s.ret = "stopped" => s.post = None
         /\ live = s.was

C14_ChunkingIrrelevant ==
  resp.kind = "parsed" =>
    /\ Join(ops[1].out) = resp.text
    /\ delivered = resp.whole.events
    /\ resp.raised = resp.whole.raised
    /\ writes = resp.whole.saves

\* a JSON line cut in two inside the object, forwarded as one event
C14_Witness ==
  /\ resp.kind = "parsed"
  /\ resp.text = DoneEvent \o <<NL>>
  /\ Len(ops[1].out) = 2
  /\ Len(ops[1].out[1]) = 1
  /\ delivered = <<DoneLine>>

\* What the lines of a text give when each is forwarded by itself, in the
\* order in which they end in the text, up to a line that raises.
RECURSIVE C15_Forwarded(_)
C15_Forwarded(text) ==
  LET n == FirstNL(text) IN
  IF n = 0 THEN ProcessRemainder([StreamState0 EXCEPT !.line_buffer = text]).events
  ELSE LET st == ProcessLine(StreamState0, SubSeq(text, 1, n - 1)) IN
       IF st.raised # "" THEN <<>>
       ELSE st.events \o C15_Forwarded(SubSeq(text, n + 1, Len(text)))

C15_NoticeLast ==
  (call.kind = "stream" /\ (call.phase = "recreate" \/ call.retried)) =>
    (delivered # <<>> /\ delivered[Len(delivered)] = RestartNotice)

\* Right after a spawn of a stream: the events of the process's lines, in
\* the order of the lines, stand together in what was forwarded, after the
\* restart notice when the spawn was the retry and first otherwise, and at
\* most two synthesized lines follow them.
C15_InOrder ==
  (ops # <<>> /\ ops[1].op = "stream" /\ (call.kind = "stream" \/ StreamEnded)) =>
    LET forwarded == C15_Forwarded(Join(ops[1].out))
        k == Len(delivered) - Len(forwarded)
    IN \E n \in {k - 2, k - 1, k} :
         /\ n >= 0
         /\ SubSeq(delivered, n + 1, n + Len(forwarded)) = forwarded
         /\ IF Len(StreamLog) = 2 THEN n >= 1 /\ delivered[n] = RestartNotice ELSE n = 0

\* A stream only adds to what it has forwarded.
C15_AppendOnly ==
  call.kind = "stream" =>
    /\ Len(delivered') >= Len(delivered)
    /\ SubSeq(delivered', 1, Len(delivered)) = delivered

\* C15: within one stream the events are forwarded in the order in which
\* their lines end in the process output, after everything forwarded before;
\* and on a retry the restart notice is the last line forwarded when the
\* fresh context is created and when it is run, so it precedes every event
\* of the fresh context.
C15_ForwardedInOrder == [](C15_NoticeLast /\ C15_InOrder) /\ [][C15_AppendOnly]_vars

\* a retried stream: events of the lost context, the notice, then two
\* different events of the fresh context
C15_Witness ==
  /\ resp.kind = "stream"
  /\ Len(resp.log) = 2
  /\ ops # <<>> /\ ops[1].op = "stream"
  /\ ops[1].out = <<StdoutEvent \o <<NL>>, DoneLine>>
  /\ Len(delivered) = 4
  /\ delivered[1] = DoneLine
  /\ delivered[2] = RestartNotice
  /\ delivered[3] = StdoutEvent \o <<NL>>
  /\ delivered[4] = DoneLine

\* C16: every line the stream executor yields is a JSON object carrying a
\* "type" field.
C16_YieldsTypedObjects ==
  resp.kind = "parsed" =>
    \A k \in DOMAIN delivered :
      LET line == SubSeq(delivered[k], 1, Len(delivered[k]) - 1)
      IN /\ delivered[k][Len(delivered[k])] = NL
         /\ JsonKind(line) = "object"
         /\ line[2] # "u"

\* The streaming program has exited / has run to its end.
StreamProgramExited == call.kind = "program" /\ call.mode = "stream" /\ call.pc = "exited"
StreamProgramFinished == StreamProgramExited /\ call.finished

C17_Rank(type) ==
  CASE type = "stdout" -> 1 [] type = "image" -> 2 [] type = "result" -> 3
    [] type = "error" -> 4 [] type = "done" -> 5 [] OTHER -> 0

C17_Ordered ==
  LET t == DeliveredTypes
      Count(type) == Cardinality({i \in DOMAIN t : t[i] = type})
  IN /\ \A i \in DOMAIN t : C17_Rank(t[i]) > 0
     /\ \A i, j \in DOMAIN t : i < j => C17_Rank(t[i]) <= C17_Rank(t[j])
     /\ Count("image") = call.figures
     /\ Count("result") <= 1
     /\ Count("error") <= 1
     /\ Count("done") = 1
     /\ (call.n = 2 /\ call.written = <<"a", NL, "a", NL>> /\ call.figures = 0)
          => t = <<"stdout", "stdout", "done">>

\* C17: the streaming program emits stdout events, then one image event per
\* figure, then at most one result event, then at most one error event, then
\* exactly one done event; a fragment that only prints two lines emits
\* stdout, stdout, done.
C17_FixedOrder == StreamProgramExited => C17_Ordered

\* the same of the programs that ran to their end only
C17_FixedOrderWhenFinished == StreamProgramFinished => C17_Ordered

RECURSIVE C18_Data(_)
\* the data fields of the stdout events among some emitted lines, concatenated
C18_Data(lines) ==
  IF lines = <<>> THEN <<>>
  ELSE (IF DeliveredType(Head(lines)) = "stdout"
        THEN Loads(SubSeq(Head(lines), 1, Len(Head(lines)) - 1)).data ELSE <<>>)
       \o C18_Data(Tail(lines))

\* C18: once the streaming program is over, the data fields of the stdout
\* events it emitted, concatenated, are the text the user code wrote to
\* standard output.
C18_StdoutComplete == StreamProgramFinished => C18_Data(delivered) = call.written

\* A generated program of either mode has run to its end.
ProgramFinished == call.kind = "program" /\ call.pc = "exited" /\ call.finished

RECURSIVE C19_ResultEvents(_)
C19_ResultEvents(lines) ==
  IF lines = <<>> THEN <<>>
  ELSE (IF DeliveredType(Head(lines)) = "result"
        THEN LET event == Loads(SubSeq(Head(lines), 1, Len(Head(lines)) - 1))
             IN <<[type |-> IF event.format = "dataframe" THEN "dataframe" ELSE "result",
                   content |-> event.data]>>
        ELSE <<>>)
       \o C19_ResultEvents(Tail(lines))

\* The result payloads a finished program has put out: the result events of
\* the streaming program, the result field of the batch program's record.
C19_Payloads ==
  IF call.mode = "stream" THEN C19_ResultEvents(delivered)
  ELSE IF delivered[1].rec.result.type # "none" THEN <<delivered[1].rec.result>> ELSE <<>>

\* The value of the fragment's last statement, a bare expression, in the
\* namespace the preceding statements left.
C19_Value == Eval(call.globals, call.last)

\* C19 (as the code has it): a finished program whose fragment ended in a
\* bare expression that was evaluated puts out one result payload, the repr
\* of the expression's value after the preceding statements, except that
\* None and a value with the default object repr give no payload and a
\* DataFrame gives its records as a dataframe payload; a fragment that ended
\* in another statement, failed to parse or raised gives no payload.
C19_ResultRule ==
  ProgramFinished =>
    /\ call.evaluated =>
         /\ call.last.kind = "expr"
         /\ C19_Payloads =
              (CASE C19_Value \in {NoneValue, Obj} -> <<>>
                 [] C19_Value = Df -> <<[type |-> "dataframe", content |-> ToJson(Df)]>>
                 [] OTHER -> <<[type |-> "result", content |-> Repr(C19_Value)]>>)
    /\ ~call.evaluated =>
         /\ C19_Payloads = <<>>
         /\ call.last.kind = "expr" => Truthy(call.error)

\* x = 2 followed by the bare expression x, in a streaming program
C19_Witness ==
  /\ ProgramFinished
  /\ call.mode = "stream"
  /\ call.evaluated
  /\ call.n = 2
  /\ call.last.name = "x"
  /\ pkl.names["x"] = "2"
  /\ C19_Payloads = <<[type |-> "result", content |-> <<"2">>]>>

\* C19 as stated: every evaluated last expression gives its repr as payload.
C19_ReprOfLastExpression ==
  ProgramFinished =>
    C19_Payloads = IF call.evaluated
                   THEN <<[type |-> "result", content |-> Repr(C19_Value)]>>
                   ELSE <<>>

\* The next program is spawned on the context after one has exited.
C20_NextSpawn ==
  /\ call.kind = "program" /\ call.pc = "exited"
  /\ call'.kind = "program" /\ call'.pc = "user"

C20_Visible ==
  C20_NextSpawn =>
    \A k \in Names :
      (call.globals[k] # Unbound /\ Picklable(call.globals[k]))
        => call'.globals[k] = call.globals[k]

\* C20: every name bound in the namespace a fragment's execution left, to a
\* value that can be serialized, is bound to the same value in the namespace
\* the next fragment on the context starts with, in either mode.
C20_NamespacePersists == [][C20_Visible]_vars

\* The exited program's fragment bound m by import: a value pickle rejects.
C21_BoundModule == C20_NextSpawn /\ call.globals["m"] = Module

C21_Survives ==
  C21_BoundModule =>
    \A k \in Names :
      (call.globals[k] # Unbound /\ Picklable(call.globals[k]))
        => call'.globals[k] = call.globals[k]

\* C21: after a fragment has bound a value that cannot be serialized, every
\* name its execution left bound to a value that can be serialized is bound
\* to the same value when the next fragment on the context starts.
C21_SerializableSurvives == [][C21_Survives]_vars

\* the same of the programs that ran to their end, and of the names that are
\* neither private nor plt
C21_SurvivesWhenPersisted ==
  [][(C21_BoundModule /\ call.finished) =>
       \A k \in Names \ {"_y", "plt"} :
         (call.globals[k] # Unbound /\ Picklable(call.globals[k]))
           => call'.globals[k] = call.globals[k]]_vars

\* What the program owes after its user code: the figures captured, the
\* namespace persisted as the user code left it, and the record or the
\* events ending in done put out, with the error in them.
C22_Reported ==
  /\ call.finished
  /\ Truthy(call.error)
  /\ pkl = PersistGlobals(call.globals)
  /\ IF call.mode = "stream"
     THEN /\ delivered # <<>>
          /\ DeliveredTypes[Len(delivered)] = "done"
          /\ Cardinality({i \in DOMAIN delivered : DeliveredTypes[i] = "error"}) = 1
          /\ Cardinality({i \in DOMAIN delivered : DeliveredTypes[i] = "image"}) = call.figures
     ELSE /\ Len(delivered) = 1
          /\ delivered[1].rec.error = call.error
          /\ Len(delivered[1].rec.images) = call.figures

\* C22: whatever the user code raises, the program reports it as its error,
\* captures the figures, persists the namespace and puts out its record or
\* its done event.
C22_WhateverIsRaised ==
  (call.kind = "program" /\ call.pc = "exited" /\ Raises(call.globals, call.last) # "")
    => C22_Reported

\* the same of what is raised in the class Exception
C22_ExceptionsReported ==
  (call.kind = "program" /\ call.pc = "exited"
     /\ Raises(call.globals, call.last) \notin {"", "SystemExit", "os._exit"})
    => C22_Reported

\* The whole output of the batch process just read, and whether its last
\* line fails to parse.
C23_Output == Join([i \in 1..Len(ops[1].out) |-> ops[1].out[i].text])

C23_LastLineInvalid ==
  /\ resp.kind = "batchread"
  /\ ops[1].out # <<>>
  /\ ops[1].out[Len(ops[1].out)].json = "invalid"

\* C23: when the last output line of a batch run cannot be parsed, the
\* record's error is the parser's error description followed by the first
\* 500 characters of the raw output when the output is longer than 500
\* characters and by the whole output otherwise.
C23_RawPrefix ==
  C23_LastLineInvalid =>
    /\ resp.raised = "" /\ resp.dict
    /\ resp.result.error =
         ParseErrorMsg \o <<"JSONDecodeError", NL>> \o RawOutputMsg
           \o (IF Len(C23_Output) > 500
               THEN [i \in 1..500 |-> C23_Output[i]]
               ELSE C23_Output)

\* an output of 501 characters, cut to 500
C23_Witness ==
  /\ C23_LastLineInvalid
  /\ Len(C23_Output) = 501
  /\ Len(resp.result.error) = Len(ParseErrorMsg) + 2 + Len(RawOutputMsg) + 500

\* C24: whenever the last output line of a batch process is no JSON object,
\* execute_on_kernel raises nothing and returns a record that carries an
\* error.
C24_ErrorRecordNotRaise ==
  (resp.kind = "batchread" /\ ops[1].out # <<>>
     /\ ops[1].out[Len(ops[1].out)].json # "object")
    => /\ resp.raised = ""
       /\ resp.dict
       /\ Truthy(resp.result.error)

\* C25: whichever writes of cell outputs the store rejects, the response
\* of the batch caller and the lines forwarded to the streaming caller are
\* those of the run in which every write lands.
C25_WriteFailuresSwallowed ==
  /\ resp.kind = "execute" => [k \in DOMAIN resp \ {"ideal"} |-> resp[k]] = resp.ideal
  /\ resp.kind = "streamed" => delivered = resp.ideal

\* a batch response and a stream whose writes were all sent and all rejected
C25_Witness ==
  /\ resp.kind \in {"execute", "streamed"}
  /\ Len(writes) >= 3
  /\ \A i \in DOMAIN writes : ~writes[i].landed
  /\ resp.kind = "execute" => resp.success /\ Len(resp.outputs) = Len(writes) - 1
  /\ resp.kind = "streamed" => delivered # <<>>

\* The step just taken spawned the fragment in batch mode, no provider call
\* failed, and the process wrote the record of a user code that raised.
C26_BatchUserError ==
  /\ ops # <<>> /\ ops[1].op = "execute" /\ ops[1].how = "run"
  /\ ops[1].out # <<>>
  /\ ops[1].out[Len(ops[1].out)].json = "object"
  /\ Truthy(ops[1].out[Len(ops[1].out)].rec.error)

\* The same in streaming mode: the process emitted an error event.
C26_StreamUserError ==
  /\ ops # <<>> /\ ops[1].op = "stream" /\ ops[1].fail = ""
  /\ \E i \in DOMAIN ops[1].out : DeliveredType(ops[1].out[i]) = "error"

\* C26: a spawn whose user code raised returns without an exception, is not
\* followed by the termination and recreation of the context, and is the
\* last spawn of its cell: the batch moves on to the next cell or responds,
\* the stream ends.
C26_UserErrorNotRetried ==
  /\ C26_BatchUserError =>
       /\ ops[1].ret.raised = ""
       /\ call.kind = "batch" =>
            (call.phase = "exec" /\ Head(call.todo) # ops[1].cell)
       /\ call.kind # "batch" => (call = Returned /\ resp.kind = "execute" /\ resp.success)
  /\ C26_StreamUserError =>
       /\ ops[1].raised = ""
       /\ call = Returned
       /\ resp.kind = "stream"

\* a batch whose only spawn reported a user error, and such a stream
C26_Witness ==
  \/ /\ C26_BatchUserError
     /\ call = Returned
     /\ Len(resp.log) = 1
     /\ \E i \in DOMAIN resp.outputs : resp.outputs[i].type = "error"
  \/ /\ C26_StreamUserError
     /\ Len(resp.log) = 1
     /\ DeliveredTypes = <<"error", "done">>

\* Every "!" and "%" of the code has a character that is not blank before
\* it on its line: no line's first non-blank character is "!" or "%".
C27_Plain(code) ==
  \A i \in DOMAIN code :
    code[i] \in {"!", "%"} =>
      \E j \in 1..(i - 1) :
        /\ code[j] \notin {Space, Tab, NL}
        /\ \A k \in j..i : code[k] # NL

\* C27: a code none of whose lines starts, after its blanks, with "!" or
\* "%" is returned by the preprocessor exactly as it was given.
C27_PlainCodeUnchanged ==
  (resp.kind = "preprocessed" /\ C27_Plain(resp.input)) => resp.code = resp.input

\* an indented plain code of two lines went through the preprocessor
C27_Witness ==
  /\ resp.kind = "preprocessed"
  /\ C27_Plain(resp.input)
  /\ \E i \in DOMAIN resp.input : resp.input[i] = NL
  /\ resp.input # <<>> /\ resp.input[1] = Space
  /\ \E i \in DOMAIN resp.input : resp.input[i] = "="

\* The rule a line falls under: the first, in the stated order, that the
\* line matches after its indentation.
C28_Rule(body) ==
  IF StartsWith(body, <<"!">>) THEN "shell"
  ELSE IF StartsWith(body, <<"%", "%">>) THEN "cell"
  ELSE IF \E w \in {Space, Tab} : StartsWith(body, MagicPip \o <<w>>) THEN "pip"
  ELSE IF \E w \in {Space, Tab} : StartsWith(body, MagicConda \o <<w>>) THEN "conda"
  ELSE IF StartsWith(body, MagicCd \o <<Space>>) THEN "cd"
  ELSE IF StartsWith(body, MagicEnv \o <<Space>>) THEN "env"
  ELSE IF StartsWith(body, <<"%">>) THEN "line"
  ELSE "plain"

\* The rule a rewritten line was written by, read off its fixed text.
C28_Written(text) ==
  CASE text = "import subprocess; subprocess.run(" -> "shell"
    [] text = "# Cell magic not supported: " -> "cell"
    [] text = "import subprocess; subprocess.run([\"pip\", " -> "pip"
    [] text = "import subprocess; subprocess.run([\"conda\", " -> "conda"
    [] text = "import os; os.chdir(" -> "cd"
    [] text \in {"import os; os.environ[", "import os; print(os.environ.get("} -> "env"
    [] text = "# Line magic not supported: " -> "line"
    [] OTHER -> "plain"

\* One line and what it was rewritten to: the indentation is kept, the
\* rewriting is that of the first rule matched, and a package-manager line
\* carries the whitespace-separated tokens that follow the magic's name.
C28_LineOk(line, out) ==
  LET body == LStrip(line)
      indent == SubSeq(line, 1, Len(line) - Len(body))
      rule == C28_Rule(body)
      name == IF rule = "pip" THEN MagicPip ELSE MagicConda
      args == Words(Drop(body, Len(name)))
  IN
  /\ rule = "plain" => out = line
  /\ rule # "plain" =>
       /\ StartsWith(out, indent)
       /\ Len(out) > Len(indent)
       /\ C28_Written(out[Len(indent) + 1]) = rule
  /\ rule \in {"pip", "conda"} =>
       Drop(out, Len(indent) + 1) =
         JoinWith(<<", ">>, [i \in 1..Len(args) |-> ReprStr(args[i])]) \o <<"])">>

\* C28: every line of the code is rewritten by the first rule it matches,
\* in the order "!", "%%", "%pip"/"%conda" followed by a space or a tab,
\* "%cd ", "%env ", any other "%", with its indentation kept.
C28_FirstMatchWins ==
  resp.kind = "preprocessed" =>
    LET lines == Split(resp.input, NL)
        outs == Split(resp.code, NL)
    IN /\ Len(outs) = Len(lines)
       /\ \A i \in 1..Len(lines) : C28_LineOk(lines[i], outs[i])

\* The same with the rule of "%conda" as the code has it: matched only
\* when a space follows.
C28_ExceptCondaTab ==
  resp.kind = "preprocessed" =>
    LET lines == Split(resp.input, NL)
        outs == Split(resp.code, NL)
    IN /\ Len(outs) = Len(lines)
       /\ \A i \in 1..Len(lines) :
            \/ StartsWith(LStrip(lines[i]), MagicConda \o <<Tab>>)
            \/ C28_LineOk(lines[i], outs[i])

\* Both calls have returned, each having created a context.
C29_BothCreated ==
  /\ call.kind = "race"
  /\ \A t \in Callers : call.task[t].pc = "done" /\ call.task[t].made # None

\* The writes of the stored id that landed, in the order they landed.
C29_Landed ==
  LET Took(w) == w.landed IN SelectSeq(writes, Took)

\* C29: when both calls created a context, the two contexts are distinct and
\* both stay live; the store holds the id whose write landed last, and the
\* context of the other call is live but no longer referenced by the store.
C29_LastWriteWins ==
  C29_BothCreated =>
    /\ call.task[1].made # call.task[2].made
    /\ \A t \in Callers : call.task[t].made \in live /\ call.task[t].ret = call.task[t].made
    /\ (C29_Landed # <<>> /\ C29_Landed[Len(C29_Landed)].id # None) =>
         LET last == C29_Landed[Len(C29_Landed)] IN
         /\ store = last.id
         /\ store = call.task[last.by].made
         /\ \E t \in Callers : t # last.by /\ call.task[t].made \in live \ {store}

\* two ensure calls found a stale id, both created, both writes landed, and
\* the store holds the context created first, written last
C29_Witness ==
  /\ C29_BothCreated
  /\ \A i \in DOMAIN writes : writes[i].landed
  /\ Len(writes) = 4
  /\ store = call.task[1].made
  /\ call.task[1].made < call.task[2].made
  /\ call.task[2].made \in live

\* index of the last "\n" of a text, 0 when it has none
C30_LastNL(t) ==
  IF \E i \in 1..Len(t) : t[i] = NL
  THEN CHOOSE i \in 1..Len(t) : t[i] = NL /\ \A j \in (i + 1)..Len(t) : t[j] # NL
  ELSE 0

\* The output of the process ended in a line without its newline.
C30_Unterminated ==
  /\ resp.kind = "parsed"
  /\ resp.raised = ""
  /\ resp.text # <<>>
  /\ Strip(SubSeq(resp.text, C30_LastNL(resp.text) + 1, Len(resp.text))) # <<>>

\* What the executor does with the same output, the last line terminated.
C30_Terminated ==
  stream_execute_on_kernel(ParseCell, <<resp.text \o <<NL>>>>, ops[1].err, NoFail)

\* C30: an output whose last line lacks its newline is forwarded and saved
\* as the same output with the newline: the remainder is one more event
\* and it reaches the accumulators the saves are made from.
C30_RemainderAsLine ==
  C30_Unterminated =>
    /\ delivered = C30_Terminated.events
    /\ writes = C30_Terminated.saves

\* The forwarding alone: the remainder is forwarded as the terminated line
\* is, unless the terminated line raises.
C30_RemainderForwarded ==
  (C30_Unterminated /\ C30_Terminated.raised = "") => delivered = C30_Terminated.events

\* The events of the output just read, in arrival order; a line that is no
\* JSON counts as the stdout event the executor makes of it.
C31_Events ==
  [i \in 1..Len(ops[1].out) |->
     LET line == SubSeq(ops[1].out[i], 1, Len(ops[1].out[i]) - 1) IN
     IF JsonKind(line) = "object" THEN Loads(line)
     ELSE [type |-> "stdout", format |-> "", data |-> line \o <<NL>>]]

\* The data of the events of the given types, in arrival order.
C31_Data(types) ==
  LET Of(e) == e.type \in types
      es == SelectSeq(C31_Events, Of)
  IN [i \in 1..Len(es) |-> es[i].data]

\* The contents saved under the given output type, in the order saved.
C31_Saved(type) ==
  LET Of(w) == w.type = type
      ws == SelectSeq(writes, Of)
  IN [i \in 1..Len(ws) |-> ws[i].content]

\* The last element of a sequence as a sequence, empty when there is none.
C31_Last(seq) == IF seq = <<>> THEN <<>> ELSE <<seq[Len(seq)]>>

\* C31: once the stream has been drained without an exception, what is
\* saved is, piece by piece and each whatever the others are: the stdout
\* data joined when not empty, every image in arrival order, the last result
\* event alone under "dataframe" or "result" by its format, the last error
\* message alone, and the stderr read under "stderr".
C31_PiecesSavedIndependently ==
  (resp.kind = "persisted" /\ resp.raised = "") =>
    LET results == SelectSeq(C31_Events, LAMBDA e : e.type = "result")
        lastIsDf == results # <<>> /\ results[Len(results)].format = "dataframe"
    IN
    /\ \A i \in DOMAIN writes : writes[i].op = "save" /\ writes[i].cell_id = ParseCell.id
    /\ C31_Saved("stdout") =
         (IF Join(C31_Data({"stdout"})) = <<>> THEN <<>> ELSE <<Join(C31_Data({"stdout"}))>>)
    /\ C31_Saved("image") = C31_Data({"image"})
    /\ C31_Saved("dataframe") = (IF lastIsDf THEN C31_Last(C31_Data({"result"})) ELSE <<>>)
    /\ C31_Saved("result") = (IF lastIsDf THEN <<>> ELSE C31_Last(C31_Data({"result"})))
    /\ C31_Saved("error") = C31_Last(C31_Data({"error"}))
    /\ C31_Saved("stderr") = (IF ops[1].err = <<>> THEN <<>> ELSE <<Join(ops[1].err)>>)
    /\ Len(writes) = Len(C31_Saved("stdout")) + Len(C31_Saved("image"))
                       + Len(C31_Saved("dataframe")) + Len(C31_Saved("result"))
                       + Len(C31_Saved("error")) + Len(C31_Saved("stderr"))

\* two results and two errors arrived and no stdout: the later of each is
\* saved, with the stderr
C31_Witness ==
  /\ resp.kind = "persisted" /\ resp.raised = ""
  /\ C31_Data({"result"}) = <<<<"<table>">>, <<"1">>>>
  /\ C31_Saved("result") = <<<<"1">>>>
  /\ C31_Saved("stdout") = <<>>
  /\ C31_Saved("stderr") # <<>>

\* The batch process wrote lines the last of which is a record.
C32_LastIsRecord ==
  /\ resp.kind = "batchread"
  /\ ops[1].out # <<>>
  /\ ops[1].out[Len(ops[1].out)].json = "object"

\* C32: the record returned is that of the last line whatever precedes it;
\* the stderr of the process, when there is any, is put after the stderr of
\* the record and a newline, or is the whole stderr when the record has none.
C32_LastLineIsRecord ==
  C32_LastIsRecord =>
    LET rec == ops[1].out[Len(ops[1].out)].rec
        err == Join(ops[1].err)
    IN /\ resp.raised = ""
       /\ resp.dict
       /\ [resp.result EXCEPT !.stderr = <<>>] = [rec EXCEPT !.stderr = <<>>]
       /\ resp.result.stderr =
            (IF ops[1].err = <<>> THEN rec.stderr
             ELSE IF rec.stderr # <<>> THEN rec.stderr \o <<NL>> \o err
             ELSE err)

\* a record with stderr of its own read after another record and raw text,
\* the process having written to stderr too
C32_Witness ==
  /\ C32_LastIsRecord
  /\ Len(ops[1].out) = 3
  /\ ops[1].out[1] = RecordLine(ParseCell, FALSE)
  /\ ops[1].out[2].json = "invalid"
  /\ ops[1].out[3] = StderrRecordLine(ParseCell)
  /\ resp.result.stderr = <<"e", NL, NL, "w", NL>>

\* The streaming call ended because its caller stopped consuming.
C33_Closed == call = Returned /\ resp.kind = "stream" /\ resp.failed = "GeneratorExit"

\* C33: when the caller stopped consuming before the stream was exhausted,
\* the store received the clearing of the cell's outputs made before the
\* spawn and nothing else: no output of the execution is saved.
C33_DiscardedWhenClosed ==
  C33_Closed =>
    /\ Len(writes) = 1
    /\ writes[1].op = "clear"
    /\ \A i \in DOMAIN resp.log : writes[1].cell_id = resp.log[i].cell

\* the caller received a stdout event and the end of a process that had
\* stderr too, and stopped there
C33_Witness ==
  /\ C33_Closed
  /\ ops # <<>> /\ ops[1].fail = "" /\ ops[1].err # <<>>
  /\ Len(delivered) = 2
  /\ delivered[1] = StdoutEvent \o <<NL>>
  /\ writes = <<Clear(ParseCell)>>

\* A stream that was retried has ended and its last step was the second spawn.
C34_Retried ==
  /\ StreamEnded
  /\ Len(resp.log) = 2
  /\ ops # <<>> /\ ops[1].op = "stream"

\* What the second spawn yields and saves when it runs to its end.
C34_Second ==
  stream_execute_on_kernel([id |-> resp.log[2].cell], ops[1].out, ops[1].err, NoFail)

\* After the retry: the second spawn ran the same cell on another context
\* after the first was lost; what the first had forwarded and the notice
\* are still there and a completed second spawn follows them from its first
\* event on; the store received the clear and then only the saves of the
\* second spawn, none when it did not run to its end.
C34_SavedFromCompleted ==
  /\ (call.kind = "stream" /\ (call.phase = "recreate" \/ call.retried)) =>
       writes = <<Clear(call.cell)>>
  /\ C34_Retried =>
       /\ resp.log[1].outcome = "NotFoundError"
       /\ resp.log[2].cell = resp.log[1].cell
       /\ resp.log[2].sandbox_id # resp.log[1].sandbox_id
       /\ \E n \in DOMAIN delivered :
            /\ delivered[n] = RestartNotice
            /\ resp.log[2].outcome = "ok" =>
                 SubSeq(delivered, n + 1, Len(delivered)) = C34_Second.events
       /\ writes = <<Clear([id |-> resp.log[2].cell])>>
                     \o (IF resp.log[2].outcome = "ok" THEN C34_Second.saves ELSE <<>>)

\* From the loss of the context on, what the stream has forwarded stays
\* forwarded: the recreation and the second spawn only add after it.
C34_NotRetracted ==
  (call.kind = "stream" /\ (call.phase = "recreate" \/ call.retried)) =>
    /\ Len(delivered') >= Len(delivered)
    /\ SubSeq(delivered', 1, Len(delivered)) = delivered

\* C34: across a retry of a stream the events of the failed spawn stay
\* forwarded and the fragment is run again from its start on the new
\* context, while the store receives the outputs of the completed spawn only.
C34_DuplicatedNotPersistedTwice ==
  []C34_SavedFromCompleted /\ [][C34_NotRetracted]_vars

\* the same stdout event forwarded by the lost context and by the new one,
\* saved once
C34_Witness ==
  /\ C34_Retried
  /\ resp.log[2].outcome = "ok"
  /\ delivered = <<StdoutEvent \o <<NL>>, RestartNotice, StdoutEvent \o <<NL>>>>
  /\ Len(writes) = 2
  /\ writes[2].type = "stdout"

\* The spawn recorded at k of the batch call ended with an exception.
C35_Raised(k) == BatchLog[k].outcome \notin {"ok", "value"}

\* The spawn recorded at k is the first of its cell in the call.
C35_First(k) == \A j \in 1..(k - 1) : BatchLog[j].cell # BatchLog[k].cell

\* How often the context was recreated for the cell of the spawn at k.
C35_Recreations(k) ==
  Cardinality({i \in 1..Len(BatchRecreated) : BatchRecreated[i] = BatchLog[k].cell})

\* C35: in a batch call a first spawn of a cell that raises, whatever the
\* exception, is followed by one terminate-and-create and, when the create
\* succeeded, by one more spawn of the same cell on the created context;
\* an exception of the create or of that second spawn is not handled again:
\* the call ends with success false.  Nothing else recreates the context.
C35_RetryOnceThenFail ==
  /\ \A k \in 1..Len(BatchLog) :
       (C35_Raised(k) /\ C35_First(k)) =>
         \/ /\ k = Len(BatchLog)
            /\ call.kind = "batch" /\ call.phase = "recreate"
            /\ Head(call.todo).id = BatchLog[k].cell
            /\ C35_Recreations(k) = 0
         \/ /\ C35_Recreations(k) = 1
            /\ \/ /\ k = Len(BatchLog)
                  /\ \/ /\ call.kind = "batch" /\ call.phase = "retry"
                        /\ Head(call.todo).id = BatchLog[k].cell
                        /\ call.sandbox_id # BatchLog[k].sandbox_id
                        /\ call.sandbox_id \in live
                     \/ BatchEnded /\ ~resp.success /\ resp.raised = ""
               \/ /\ k < Len(BatchLog)
                  /\ BatchLog[k + 1].cell = BatchLog[k].cell
                  /\ BatchLog[k + 1].sandbox_id # BatchLog[k].sandbox_id
  /\ \A k \in 1..Len(BatchLog) :
       (C35_Raised(k) /\ ~C35_First(k)) =>
         /\ k = Len(BatchLog)
         /\ BatchEnded /\ ~resp.success /\ resp.raised = ""
  /\ \A k \in 1..Len(BatchLog) :
       Cardinality({j \in 1..Len(BatchLog) : BatchLog[j].cell = BatchLog[k].cell}) <= 2
  /\ \A i \in 1..Len(BatchRecreated) :
       \E k \in 1..Len(BatchLog) :
         BatchLog[k].cell = BatchRecreated[i] /\ C35_Raised(k) /\ C35_First(k)

\* a cell whose two spawns both raised, the second not a lost context: one
\* recreation, success false
C35_Witness ==
  /\ BatchEnded
  /\ ~resp.success
  /\ Len(resp.log) = 2
  /\ resp.log[1].outcome = "Exception"
  /\ resp.log[2].outcome = "Exception"
  /\ resp.log[1].cell = resp.log[2].cell
  /\ Len(resp.recreated) = 1

\* Two ensure calls were made with nothing between them: no sandbox was
\* lost and the store is as the first call left it.
C36_Consecutive ==
  /\ call.kind = "ensure"
  /\ Len(ops) = 2
  /\ ~ops[1].raised
  /\ ops[2].was = ops[1].was \cup ops[1].made
  /\ ops[1].ret \in ops[2].was

C37_Clears ==
  /\ Len(writes') = Len(writes) + 1
  /\ writes'[Len(writes')].id = None
  /\ writes'[Len(writes')].landed

\* C37 as stated: a call that clears the stored id clears the id it read
\* itself; an id stored meanwhile by a concurrent create_sandbox stays.
C37_ClearsOnlyTheIdItRead ==
  [][C37_Clears =>
       store \in {None, call.task[writes'[Len(writes')].by].sandbox_id}]_vars

RECURSIVE C38_Lines(_)
\* How many lines of a text are not blank, its unterminated rest included.
C38_Lines(t) ==
  LET n == FirstNL(t) IN
  IF n = 0 THEN (IF Strip(t) = <<>> THEN 0 ELSE 1)
  ELSE (IF Strip(SubSeq(t, 1, n - 1)) = <<>> THEN 0 ELSE 1)
       + C38_Lines(SubSeq(t, n + 1, Len(t)))

\* C38 as stated: whatever the lines of the process's standard output hold
\* (an event, text that is no JSON, JSON that is no object), the stream
\* executor raises nothing and yields one line for each of them, besides
\* the stderr event.
C38_NoLineAbortsTheStream ==
  resp.kind = "parsed" =>
    /\ resp.raised = ""
    /\ Len(delivered) = C38_Lines(resp.text) + (IF ops[1].err # <<>> THEN 1 ELSE 0)

\* The cells whose spawn returned a record, in the order of their spawns,
\* followed by the cells still to execute.
C39_Done ==
  LET ok == {k \in 1..Len(BatchLog) : BatchLog[k].outcome = "ok"}
  IN Select([k \in 1..Len(BatchLog) |-> Cell(BatchLog[k].cell)], ok)

C39_Cells == C39_Done \o (IF call.kind = "batch" THEN call.todo ELSE <<>>)

\* Each cell is executed once, in ascending order index, and a call whose
\* spawns all returned a record ends with success true.
C39_OnceAscending ==
  /\ \A i \in 1..Len(C39_Cells) :
       /\ IsPythonCode(C39_Cells[i])
       /\ \A j \in 1..(i - 1) : C39_Cells[j].order_index < C39_Cells[i].order_index
  /\ (BatchEnded /\ BatchLog # <<>> /\ Len(C39_Done) = Len(BatchLog)) =>
       /\ resp.success
       /\ resp.raised = ""

\* A spawn that returned a record, whether or not it reports an error of
\* the fragment, is followed by the next cell, or by the successful return
\* when it was the last.
C39_Continues ==
  (/\ call.kind = "batch"
   /\ call.phase \in {"exec", "retry"}
   /\ ops'[1].ret.raised = ""
   /\ ops'[1].ret.dict) =>
     /\ ops'[1].cell = Head(call.todo)
     /\ IF Len(call.todo) > 1
        THEN /\ call'.kind = "batch"
             /\ call'.phase = "exec"
             /\ call'.todo = Tail(call.todo)
        ELSE /\ call' = Returned
             /\ resp'.success
             /\ resp'.raised = ""

\* C39: in a batch call over several cells an error of the user's code
\* reported for one cell does not stop the later cells: as long as the
\* spawns return their records, every selected Python code cell is executed
\* exactly once, in ascending order index, and the call returns success true.
C39_UserErrorDoesNotStopBatch == []C39_OnceAscending /\ [][C39_Continues]_vars

\* two cells executed in order, the first reporting an error of its code,
\* the second its output; success true
C39_Witness ==
  /\ BatchEnded
  /\ resp.success
  /\ Len(resp.log) = 2
  /\ resp.log[1].outcome = "ok" /\ resp.log[2].outcome = "ok"
  /\ Cell(resp.log[1].cell).order_index < Cell(resp.log[2].cell).order_index
  /\ \E i \in DOMAIN resp.outputs :
       /\ resp.outputs[i].type = "error"
       /\ resp.outputs[i].cell_id = resp.log[1].cell
  /\ \E i \in DOMAIN resp.outputs :
       /\ resp.outputs[i].type = "stdout"
       /\ resp.outputs[i].cell_id = resp.log[2].cell

\* C40: once the batch executor has recreated the sandbox for a cell, the
\* repeated spawn of that cell and every spawn of a later cell of the call
\* run on the sandbox just created (the newest one, live when the handler
\* returns, and used by no earlier spawn), never on the sandbox of the spawn
\* that raised; between recreations the sandbox stays the same.
C40_LaterCellsOnNewContext ==
  /\ \A j \in 2..Len(BatchLog) :
       IF C35_Raised(j - 1)
       THEN \A k \in 1..(j - 1) : BatchLog[k].sandbox_id < BatchLog[j].sandbox_id
       ELSE BatchLog[j].sandbox_id = BatchLog[j - 1].sandbox_id
  /\ \A k \in 1..Len(BatchLog) : \A j \in (k + 1)..Len(BatchLog) :
       C35_Raised(k) => BatchLog[j].sandbox_id # BatchLog[k].sandbox_id
  /\ (call.kind = "batch" /\ call.phase = "retry") =>
       /\ call.sandbox_id = nextId - 1
       /\ call.sandbox_id \in live
       /\ \A k \in 1..Len(BatchLog) : BatchLog[k].sandbox_id # call.sandbox_id
  /\ (call.kind = "batch" /\ call.phase = "exec" /\ BatchLog # <<>>) =>
       call.sandbox_id = BatchLog[Len(BatchLog)].sandbox_id

\* the first cell's spawn raised, its repetition and the second cell ran on
\* the sandbox created by the handler
C40_Witness ==
  /\ BatchEnded
  /\ Len(resp.log) = 3
  /\ resp.log[1].outcome = "Exception"
  /\ resp.log[2].outcome = "ok"
  /\ resp.log[3].outcome = "ok"
  /\ resp.log[3].cell # resp.log[1].cell
  /\ resp.log[3].sandbox_id = resp.log[2].sandbox_id
  /\ resp.log[3].sandbox_id # resp.log[1].sandbox_id
  /\ resp.recreated = <<resp.log[1].cell>>

====
